---- MODULE Spec2Model ----
(***************************************************************************)
(* The path-addressed YAML mutation engine of the k8s-manifest-updater      *)
(* action (actions/k8s-manifest-updater/src/index.ts).                      *)
(*                                                                          *)
(* A string is a sequence of one-character strings, so that splitting,      *)
(* pattern matching, parsing and serialisation are computed character by    *)
(* character.  A YAML node is a record tagged by t:                         *)
(*   [t |-> "undef"]                         JavaScript undefined           *)
(*   [t |-> "str" | "num" | "null", v, style, c]   a scalar; v its text     *)
(*   [t |-> "map", items, c]      items: sequence of [key, value] pairs     *)
(*   [t |-> "seq", items, c]      items: sequence of nodes                  *)
(* c is the comment line standing before the node ("commentBefore"), and    *)
(* style is the scalar's presentation: "plain", "dq" (double quoted),       *)
(* "lit" (block literal) or "raw" (a JavaScript string stored by set()      *)
(* without a Scalar node around it).                                        *)
(***************************************************************************)
EXTENDS Naturals, Sequences, FiniteSets

(***************************************************************************)
(* Characters and strings                                                   *)
(***************************************************************************)
NL == "\n"
SP == " "
DQ == "\""
BS == "\\"

Letters == {"a", "b", "c", "d", "e", "f", "g", "h", "i", "j", "k", "l", "m",
            "n", "o", "p", "q", "r", "s", "t", "u", "v", "w", "x", "y", "z",
            "A", "N", "R", "X", "_"}
Digits == {"0", "1", "2", "3", "4", "5", "6", "7", "8", "9"}

\* a run of \w characters of a JavaScript regular expression, not empty
IsWord(s) ==
    Len(s) > 0 /\ \A i \in 1..Len(s) : s[i] \in Letters \/ s[i] \in Digits

\* index of the first occurrence of ch in s at or after from, 0 when none
RECURSIVE IndexFrom(_, _, _)
IndexFrom(s, ch, from) ==
    IF from > Len(s) THEN 0
    ELSE IF s[from] = ch THEN from
    ELSE IndexFrom(s, ch, from + 1)

Contains(s, ch) == \E i \in 1..Len(s) : s[i] = ch

\* String.prototype.split(ch): the pieces between the occurrences of ch
RECURSIVE split(_, _)
split(s, ch) ==
    LET At(i) ==
            IF i = 0 THEN << s >>
            ELSE << SubSeq(s, 1, i - 1) >>
                 \o split(SubSeq(s, i + 1, Len(s)), ch)
    IN At(IndexFrom(s, ch, 1))

Spaces(n) == [i \in 1..n |-> SP]

RECURSIVE Flatten(_)
Flatten(ss) == IF ss = << >> THEN << >> ELSE Head(ss) \o Flatten(Tail(ss))

RECURSIVE Join(_, _)
Join(ss, sep) ==
    IF ss = << >> THEN << >>
    ELSE IF Len(ss) = 1 THEN ss[1]
    ELSE ss[1] \o sep \o Join(Tail(ss), sep)

(***************************************************************************)
(* parsePath                                                                *)
(***************************************************************************)
NoSelector == [key |-> << >>, value |-> << >>, present |-> FALSE]

\* p.match(/^(\w+)\[(\w+)=(.+)\]$/): the three groups, or ok = FALSE.
\* \w excludes '[' and '=', so group 1 ends at the first '[' (at lb) and
\* group 2 at the first '=' after it (at eq); (.+) is greedy and the segment
\* must end in ']', so group 3 is everything up to the last character ('.'
\* in a regular expression matches any character but a line terminator).
matchSegment(p) ==
    LET Groups(lb, eq) ==
            [ok |-> /\ lb # 0
                    /\ eq # 0
                    /\ IsWord(SubSeq(p, 1, lb - 1))
                    /\ IsWord(SubSeq(p, lb + 1, eq - 1))
                    /\ eq + 1 <= Len(p) - 1
                    /\ ~Contains(SubSeq(p, eq + 1, Len(p) - 1), NL)
                    /\ p[Len(p)] = "]",
             key |-> SubSeq(p, 1, lb - 1),
             skey |-> SubSeq(p, lb + 1, eq - 1),
             svalue |-> SubSeq(p, eq + 1, Len(p) - 1)]
        AtBracket(lb) ==
            Groups(lb, IF lb = 0 THEN 0 ELSE IndexFrom(p, "=", lb + 1))
    IN AtBracket(IndexFrom(p, "[", 1))

\* a variant of parsePart that leaves the bracket in the key
parsePart_keepsBracket(p) ==
    LET Part(match) ==
            IF match.ok
            THEN [key |-> p,
                  selector |-> [key |-> match.skey, value |-> match.svalue,
                                present |-> TRUE]]
            ELSE [key |-> p, selector |-> NoSelector]
    IN Part(matchSegment(p))

parsePart(p) ==
    LET Part(match) ==
            IF match.ok
            THEN [key |-> match.key,
                  selector |-> [key |-> match.skey, value |-> match.svalue,
                                present |-> TRUE]]
            ELSE [key |-> p, selector |-> NoSelector]
    IN Part(matchSegment(p))

parsePath(path) ==
    LET Parts(segs) == [i \in 1..Len(segs) |-> parsePart(segs[i])]
    IN Parts(split(path, "."))

(***************************************************************************)
(* The YAML document tree (package 'yaml': YAMLMap, YAMLSeq, Scalar, Pair)  *)
(***************************************************************************)
Undef == [t |-> "undef"]

Scalar(t, v, style, c) == [t |-> t, v |-> v, style |-> style, c |-> c]
Str(v) == [t |-> "str", v |-> v, style |-> "plain", c |-> << >>]
Num(v) == [t |-> "num", v |-> v, style |-> "plain", c |-> << >>]
Null == [t |-> "null", v |-> << >>, style |-> "plain", c |-> << >>]
\* a JavaScript string held in the tree without a Scalar node around it
Raw(v) == [t |-> "str", v |-> v, style |-> "raw", c |-> << >>]

Pair(k, v) == [key |-> k, value |-> v]
Map(items) == [t |-> "map", items |-> items, c |-> << >>]
Seq_(items) == [t |-> "seq", items |-> items, c |-> << >>]
Commented(node, c) == [node EXCEPT !.c = c]

isMap(node) == node.t = "map"
isSeq(node) == node.t = "seq"
isScalar(node) == node.t \in {"str", "num", "null"} /\ node.style # "raw"
\* typeof value === 'string', for the value YAMLMap.get hands out
isString(node) == node.t = "str"

\* findPair(items, key): the first pair whose key is the string key; a key
\* that parsed as a number is not === to a string.  0 when there is none.
RECURSIVE findPairFrom(_, _, _)
findPairFrom(items, key, from) ==
    IF from > Len(items) THEN 0
    ELSE IF items[from].key.t = "str" /\ items[from].key.v = key THEN from
    ELSE findPairFrom(items, key, from + 1)

findPair(items, key) == findPairFrom(items, key, 1)

\* YAMLMap.get(key): the value of the pair, undefined when there is none
get(map, key) ==
    LET At(i) == IF i = 0 THEN Undef ELSE map.items[i].value
    IN At(findPair(map.items, key))

\* YAMLMap.set(key, value) with a string value: an existing Scalar keeps its
\* node (style, comment) and takes the new value; any other existing value
\* is replaced by the string; without a pair for key one is appended.
set(map, key, value) ==
    LET At(i) ==
            IF i = 0
            THEN [map EXCEPT !.items = Append(@, Pair(Raw(key), Raw(value)))]
            ELSE IF isScalar(map.items[i].value)
            THEN [map EXCEPT !.items[i].value =
                     [t |-> "str", v |-> value, style |-> @.style, c |-> @.c]]
            ELSE [map EXCEPT !.items[i].value = Raw(value)]
    IN At(findPair(map.items, key))

(***************************************************************************)
(* Document.toString: block-style serialisation                             *)
(*                                                                          *)
(* Supported presentation: block mappings and sequences indented by two,    *)
(* plain and double-quoted scalars, block literals with clip ("|") or strip *)
(* ("|-") chomping, the empty collections {} and [], integers and decimal   *)
(* fractions as numbers, comment lines before a key or a sequence item.     *)
(***************************************************************************)
\* resolves as a number under the core schema: [-+]?[0-9]+(\.[0-9]*)?
LooksNumeric(s) ==
    LET Digits_(d) == \A i \in 1..Len(d) : d[i] \in Digits
        Unsigned(b) ==
            LET At(dot) ==
                    IF dot = 0 THEN Len(b) > 0 /\ Digits_(b)
                    ELSE /\ dot > 1
                         /\ Digits_(SubSeq(b, 1, dot - 1))
                         /\ Digits_(SubSeq(b, dot + 1, Len(b)))
            IN At(IndexFrom(b, ".", 1))
    IN Unsigned(IF Len(s) > 0 /\ s[1] \in {"-", "+"} THEN Tail(s) ELSE s)

LooksNull(s) == s \in { <<"~">>, <<"n", "u", "l", "l">> }

LooksBool(s) == s \in { <<"t", "r", "u", "e">>, <<"f", "a", "l", "s", "e">> }

Indicators == {SP, ",", "[", "]", "{", "}", "#", "&", "*", "!", "|", ">",
               "'", DQ, "%", "@"}

\* plainString's test for a string that cannot be written as a plain scalar
NotPlainSafe(s) ==
    \/ s = << >>
    \/ s[1] \in Indicators
    \/ s[1] \in {"?", "-"} /\ (Len(s) = 1 \/ s[2] = SP)
    \/ s[Len(s)] \in {SP, ":"}
    \/ \E i \in 1..(Len(s) - 1) : /\ s[i] \in {":", SP}
                                  /\ s[i + 1] = IF s[i] = ":" THEN SP ELSE "#"

RECURSIVE Escape(_)
Escape(s) ==
    IF s = << >> THEN << >>
    ELSE (CASE s[1] = DQ -> << BS, DQ >>
            [] s[1] = BS -> << BS, BS >>
            [] s[1] = NL -> << BS, "n" >>
            [] OTHER -> << s[1] >>) \o Escape(Tail(s))

doubleQuotedString(s) == << DQ >> \o Escape(s) \o << DQ >>

\* a string scalar written as a block literal: a Scalar of that type, or
\* any other unquoted string with a line break in it
isBlockString(node) ==
    /\ node.t = "str"
    /\ node.v # << >>
    /\ \/ node.style = "lit"
       \/ node.style \in {"plain", "raw"} /\ Contains(node.v, NL)

\* stringifyString for a scalar on one line
inlineScalar(node) ==
    CASE node.t = "num" -> node.v
      [] node.t = "null" -> <<"n", "u", "l", "l">>
      [] OTHER ->
           IF \/ node.style \in {"dq", "lit"}
              \/ NL \in {node.v[i] : i \in 1..Len(node.v)}
              \/ NotPlainSafe(node.v)
              \/ LooksNumeric(node.v) \/ LooksNull(node.v) \/ LooksBool(node.v)
           THEN doubleQuotedString(node.v)
           ELSE node.v

\* blockString: the header and the body lines, indented by ind
blockString(v, ind) ==
    LET Block(raw, clip) ==
            (IF clip THEN << "|", NL >> ELSE << "|", "-", NL >>)
            \o Flatten([i \in 1..(IF clip THEN Len(raw) - 1 ELSE Len(raw)) |->
                          Spaces(ind) \o raw[i] \o << NL >>])
    IN Block(split(v, NL), v # << >> /\ v[Len(v)] = NL)

commentLines(c, ind) ==
    LET Lines(ls) ==
            Flatten([i \in 1..Len(ls) |->
                       Spaces(ind) \o << "#" >> \o ls[i] \o << NL >>])
    IN IF c = << >> THEN << >> ELSE Lines(split(c, NL))

isEmptyCollection(node) == node.t \in {"map", "seq"} /\ node.items = << >>

\* what follows "key:" or "-" up to the end of the line, for a value that
\* is written on that line
sameLine(node, ind) ==
    CASE isBlockString(node) -> << SP >> \o blockString(node.v, ind + 2)
      [] isMap(node) -> << SP, "{", "}", NL >>
      [] isSeq(node) -> << SP, "[", "]", NL >>
      [] OTHER -> << SP >> \o inlineScalar(node) \o << NL >>

RECURSIVE stringify(_, _, _)

stringifyPair(pair, ind) ==
    commentLines(pair.key.c, ind) \o Spaces(ind) \o inlineScalar(pair.key)
    \o << ":" >> \o stringify(pair.value, ind, "value")

stringifyItem(item, ind) ==
    commentLines(item.c, ind) \o Spaces(ind) \o << "-" >>
    \o stringify(item, ind, "item")

\* the node written at indentation ind: as the document ("root"), after
\* "key:" ("value"), or after "-" ("item", where the first line of a
\* collection follows the dash)
stringify(node, ind, as) ==
    LET Lines(at) ==
            Flatten([i \in 1..Len(node.items) |->
                       IF isMap(node) THEN stringifyPair(node.items[i], at)
                       ELSE stringifyItem(node.items[i], at)])
        Placed(text) ==
            CASE as = "root" -> text
              [] as = "value" -> << NL >> \o text
              [] OTHER -> << SP >> \o SubSeq(text, ind + 3, Len(text))
        Same(text) == IF as = "root" THEN Tail(text) ELSE text
    IN IF node.t \in {"map", "seq"} /\ node.items # << >>
       THEN Placed(Lines(IF as = "root" THEN ind ELSE ind + 2))
       ELSE Same(sameLine(node, ind))

\* Document.toString(): refuses a document that was parsed with errors
toString(doc) ==
    IF doc.errors # << >>
    THEN [throws |-> TRUE, out |-> << >>]
    ELSE [throws |-> FALSE, out |-> stringify(doc.contents, 0, "root")]

(***************************************************************************)
(* parseDocument: the same presentation read back.  It never throws: what   *)
(* is wrong with the text is collected in the document's errors, next to    *)
(* the contents that could be composed.                                     *)
(***************************************************************************)
RECURSIVE leadingSpaces(_)
leadingSpaces(s) ==
    IF s = << >> \/ s[1] # SP THEN 0 ELSE 1 + leadingSpaces(Tail(s))

\* index of the double quote closing the one at position 1, 0 when none
RECURSIVE closingQuote(_, _)
closingQuote(cs, from) ==
    IF from > Len(cs) THEN 0
    ELSE IF cs[from] = BS THEN closingQuote(cs, from + 2)
    ELSE IF cs[from] = DQ THEN from
    ELSE closingQuote(cs, from + 1)

\* index of the first ':' at or after from that ends a plain key
RECURSIVE colonFrom(_, _)
colonFrom(cs, from) ==
    IF from > Len(cs) THEN 0
    ELSE IF cs[from] = ":" /\ (from = Len(cs) \/ cs[from + 1] = SP) THEN from
    ELSE colonFrom(cs, from + 1)

\* index of the ':' that makes the line a mapping entry, 0 when it is none
keyEnd(cs) ==
    LET Quoted(q) ==
            IF /\ q # 0
               /\ q < Len(cs)
               /\ cs[q + 1] = ":"
               /\ (q + 1 = Len(cs) \/ cs[q + 2] = SP)
            THEN q + 1 ELSE 0
    IN IF cs # << >> /\ cs[1] = DQ
       THEN Quoted(closingQuote(cs, 2))
       ELSE colonFrom(cs, 1)

\* a line: its indentation ind, the rest cs, what it is (kind) and, for a
\* mapping entry, the index ke of the ':' after its key
line(ind, cs) ==
    LET Kind(ke) ==
            [ind |-> ind, cs |-> cs, ke |-> ke,
             kind |-> CASE cs = << >> -> "blank"
                        [] cs[1] = "#" -> "comment"
                        [] cs[1] = "-" /\ (Len(cs) = 1 \/ cs[2] = SP) -> "item"
                        [] ke # 0 -> "entry"
                        [] OTHER -> "scalar"]
    IN Kind(keyEnd(cs))

\* the lines of the text
toLines(text) ==
    LET Indented(p, n) == line(n, SubSeq(p, n + 1, Len(p)))
        Lines(raw, n) == [i \in 1..n |-> Indented(raw[i], leadingSpaces(raw[i]))]
        Pieces(raw) ==
            Lines(raw, IF raw[Len(raw)] = << >> THEN Len(raw) - 1 ELSE Len(raw))
    IN Pieces(split(text, NL))

RECURSIVE Unescape(_)
Unescape(s) ==
    IF s = << >> THEN << >>
    ELSE IF s[1] = BS /\ Len(s) > 1
    THEN << IF s[2] = "n" THEN NL ELSE s[2] >> \o Unescape(SubSeq(s, 3, Len(s)))
    ELSE << s[1] >> \o Unescape(Tail(s))

\* a scalar written on one line
parseScalar(cs) ==
    LET Quoted(q) ==
            [node |-> [t |-> "str",
                       v |-> Unescape(IF q = 0 THEN Tail(cs)
                                      ELSE SubSeq(cs, 2, q - 1)),
                       style |-> "dq", c |-> << >>],
             errs |-> CASE q = 0 -> << "MISSING_CHAR" >>
                        [] q = Len(cs) -> << >>
                        [] OTHER -> << "UNEXPECTED_TOKEN" >>]
    IN CASE cs = << >> -> [node |-> Null, errs |-> << >>]
         [] cs[1] = DQ -> Quoted(closingQuote(cs, 2))
         [] cs = << "{", "}" >> -> [node |-> Map(<< >>), errs |-> << >>]
         [] cs = << "[", "]" >> -> [node |-> Seq_(<< >>), errs |-> << >>]
         [] cs[1] \in (Indicators \ {DQ}) ->
              [node |-> Str(cs), errs |-> << "BAD_SCALAR_START" >>]
         [] LooksNumeric(cs) -> [node |-> Num(cs), errs |-> << >>]
         [] LooksNull(cs) -> [node |-> Null, errs |-> << >>]
         [] OTHER -> [node |-> Str(cs), errs |-> << >>]

isBlockHeader(cs) == cs \in { << "|" >>, << "|", "-" >> }

\* number of comment and blank lines standing at position i
RECURSIVE commentRun(_, _)
commentRun(lines, i) ==
    IF i > Len(lines) \/ lines[i].kind \notin {"comment", "blank"}
    THEN 0
    ELSE 1 + commentRun(lines, i + 1)

\* the text of the comment lines among the lines i .. j - 1
commentText(lines, i, j) ==
    LET Texts(cl) == Join([k \in 1..Len(cl) |-> Tail(cl[k].cs)], << NL >>)
    IN Texts(SelectSeq(SubSeq(lines, i, j - 1),
                       LAMBDA l : l.kind = "comment"))

\* number of lines from position i on indented by at least ind
RECURSIVE bodyRun(_, _, _)
bodyRun(lines, i, ind) ==
    IF i > Len(lines) \/ lines[i].ind < ind THEN 0
    ELSE 1 + bodyRun(lines, i + 1, ind)

\* the block scalar whose header stands on line j; its body is indented by
\* at least minInd
blockScalar(lines, j, minInd, header) ==
    LET Body(blockInd, n) ==
            [node |-> [t |-> "str",
                       v |-> Join([k \in 1..n |->
                                     Spaces(lines[j + k].ind - blockInd)
                                     \o lines[j + k].cs], << NL >>)
                             \o IF header = << "|" >> /\ n > 0
                                THEN << NL >> ELSE << >>,
                       style |-> "lit", c |-> << >>],
             next |-> j + 1 + n,
             errs |-> << >>]
        At(blockInd) ==
            Body(blockInd,
                 IF blockInd < minInd THEN 0 ELSE bodyRun(lines, j + 1, blockInd))
    IN At(IF j + 1 > Len(lines) THEN minInd ELSE lines[j + 1].ind)

RECURSIVE parseNode(_, _, _)
RECURSIVE parseMapFrom(_, _, _, _, _)
RECURSIVE parseSeqFrom(_, _, _, _, _)

\* a parse result that consumed at least the line before position least
atLeast(r, least) == [r EXCEPT !.next = IF @ < least THEN least ELSE @]

\* the node that starts at line i, if a line indented by at least minInd
\* stands there after the comments
parseNode(lines, i, minInd) ==
    LET OneLine(s, j) ==
            [node |-> Commented(s.node, commentText(lines, i, j)),
             next |-> j + 1, errs |-> s.errs]
        At(j) ==
            IF j > Len(lines) \/ lines[j].ind < minInd
            THEN [node |-> Null, next |-> i, errs |-> << >>]
            ELSE CASE lines[j].kind = "item" ->
                        parseSeqFrom(lines, i, lines[j].ind, << >>, << >>)
                   [] lines[j].kind = "entry" ->
                        parseMapFrom(lines, i, lines[j].ind, << >>, << >>)
                   [] isBlockHeader(lines[j].cs) ->
                        blockScalar(lines, j, minInd, lines[j].cs)
                   [] OTHER -> OneLine(parseScalar(lines[j].cs), j)
    IN At(i + commentRun(lines, i))

\* the value of the entry on line j of a mapping indented by ind, given the
\* text after its ": "
entryValue(lines, j, ind, rest) ==
    LET OneLine(s) == [node |-> s.node, next |-> j + 1, errs |-> s.errs]
        Below(k) ==
            IF k <= Len(lines) /\ lines[k].ind = ind /\ lines[k].kind = "item"
            THEN parseSeqFrom(lines, j + 1, ind, << >>, << >>)
            ELSE atLeast(parseNode(lines, j + 1, ind + 1), j + 1)
    IN CASE rest = << >> -> Below(j + 1 + commentRun(lines, j + 1))
         [] isBlockHeader(rest) -> blockScalar(lines, j, ind + 1, rest)
         [] colonFrom(rest, 1) # 0 ->
              [node |-> Str(rest), next |-> j + 1,
               errs |-> << "BLOCK_AS_IMPLICIT_KEY" >>]
         [] OTHER -> OneLine(parseScalar(rest))

sameKey(a, b) == a.t = b.t /\ a.v = b.v

parseMapFrom(lines, i, ind, acc, errs) ==
    LET Entry(j, k, val) ==
            parseMapFrom(lines, val.next, ind,
                Append(acc, Pair(Commented(k.node, commentText(lines, i, j)),
                                 val.node)),
                errs \o k.errs \o val.errs
                \o IF \E m \in 1..Len(acc) : sameKey(acc[m].key, k.node)
                   THEN << "DUPLICATE_KEY" >> ELSE << >>)
        At(j) ==
            IF j > Len(lines) \/ lines[j].ind < ind
            THEN [node |-> Map(acc), next |-> i, errs |-> errs]
            ELSE IF lines[j].ind > ind \/ lines[j].kind # "entry"
            THEN parseMapFrom(lines, j + 1, ind, acc,
                     Append(errs, IF lines[j].ind > ind THEN "BAD_INDENT"
                                  ELSE "MISSING_CHAR"))
            ELSE Entry(j,
                       parseScalar(SubSeq(lines[j].cs, 1, lines[j].ke - 1)),
                       entryValue(lines, j, ind,
                           SubSeq(lines[j].cs, lines[j].ke + 2,
                                  Len(lines[j].cs))))
    IN At(i + commentRun(lines, i))

parseSeqFrom(lines, i, ind, acc, errs) ==
    LET Item(j, item) ==
            parseSeqFrom(lines, item.next, ind,
                Append(acc, Commented(item.node, commentText(lines, i, j))),
                errs \o item.errs)
        \* the item's node starts on the line of the dash, two columns in,
        \* or below it when the dash stands alone
        Dash(j, rest) ==
            Item(j, IF rest = << >>
                    THEN atLeast(parseNode(lines, j + 1, ind + 1), j + 1)
                    ELSE parseNode([lines EXCEPT ![j] = line(ind + 2, rest)],
                                   j, ind + 1))
        At(j) ==
            IF \/ j > Len(lines)
               \/ lines[j].ind < ind
               \/ lines[j].ind = ind /\ lines[j].kind # "item"
            THEN [node |-> Seq_(acc), next |-> i, errs |-> errs]
            ELSE IF lines[j].ind > ind
            THEN parseSeqFrom(lines, j + 1, ind, acc, Append(errs, "BAD_INDENT"))
            ELSE Dash(j, SubSeq(lines[j].cs, 3, Len(lines[j].cs)))
    IN At(i + commentRun(lines, i))

\* parseDocument(text): the contents (a null node for an empty document)
\* and the errors
parseDocument(text) ==
    LET Composed(lines, r) ==
            [contents |-> r.node,
             errors |-> IF r.next + commentRun(lines, r.next) <= Len(lines)
                        THEN Append(r.errs, "MULTILINE_OR_EXTRA_CONTENT")
                        ELSE r.errs]
        Lines(lines) == Composed(lines, parseNode(lines, 1, 0))
    IN Lines(toLines(text))

(***************************************************************************)
(* updateYamlPath / traverseAndSet                                          *)
(*                                                                          *)
(* The code mutates the tree in place and returns a boolean.  Here each     *)
(* operation returns [ret, node, log]: ret is "true", "false" or "throw"    *)
(* (an exception leaves the call), node is the subtree as the call left it, *)
(* log the messages passed to this.log, named by the line that emits them,   *)
(* n the traverseAndSet calls made (this one included) and docs the         *)
(* parseDocument calls made.                                                *)
(***************************************************************************)
Outcome(ret, node, log) ==
    [ret |-> ret, node |-> node, log |-> log, n |-> 1, docs |-> 0]

\* the outcome of a call that made the call inner on its way
After(inner, outcome) ==
    [outcome EXCEPT !.n = @ + inner.n, !.docs = @ + inner.docs]

\* the nested updateYamlPath call, with the parseDocument call before it
WithParse(nested) == [nested EXCEPT !.docs = @ + 1]

\* value.items.find(item => isMap(item) &&
\*                  item.get(selector.key) === selector.value):
\* the index of the first such item, 0 when find returns undefined
RECURSIVE findFrom(_, _, _)
findFrom(items, selector, from) ==
    LET Matches(got) == isString(got) /\ got.v = selector.value
    IN IF from > Len(items) THEN 0
       ELSE IF isMap(items[from]) /\ Matches(get(items[from], selector.key))
       THEN from
       ELSE findFrom(items, selector, from + 1)

\* a variant of find that returns the last such item
RECURSIVE findLastFrom(_, _, _)
findLastFrom(items, selector, from) ==
    LET Matches_(got) == isString(got) /\ got.v = selector.value
    IN IF from < 1 THEN 0
       ELSE IF isMap(items[from]) /\ Matches_(get(items[from], selector.key))
       THEN from
       ELSE findLastFrom(items, selector, from - 1)

find_last(items, selector) == findLastFrom(items, selector, Len(items))

find(items, selector) == findFrom(items, selector, 1)

\* a variant of resolveSelector that takes a value that is no sequence as
\* the target itself
resolveSelector_fallback(value, part) ==
    LET Found(found) ==
            IF found # 0
            THEN [ok |-> TRUE, value |-> value.items[found], idx |-> found,
                  log |-> << >>]
            ELSE [ok |-> FALSE, value |-> value, idx |-> 0,
                  log |-> << "L218_no_item" >>]
    IN IF part.selector.present /\ isSeq(value)
       THEN Found(find(value.items, part.selector))
       ELSE [ok |-> TRUE, value |-> value, idx |-> 0, log |-> << >>]

\* step 2 of traverseAndSet: the working value for the part, and where it
\* stands in the sequence when a selector picked it (idx, else 0)
resolveSelector(value, part) ==
    LET Found(found) ==
            IF found # 0
            THEN [ok |-> TRUE, value |-> value.items[found], idx |-> found,
                  log |-> << >>]
            ELSE [ok |-> FALSE, value |-> value, idx |-> 0,
                  log |-> << "L218_no_item" >>]
    IN IF part.selector.present
       THEN IF isSeq(value)
            THEN Found(find(value.items, part.selector))
            ELSE [ok |-> FALSE, value |-> value, idx |-> 0,
                  log |-> << "L222_not_a_sequence" >>]
       ELSE [ok |-> TRUE, value |-> value, idx |-> 0, log |-> << >>]

\* the mapping node after the child reached through part (and idx) was
\* mutated in place into child
withChild(node, part, idx, child) ==
    LET At(i) ==
            IF i = 0 THEN node
            ELSE IF idx = 0 THEN [node EXCEPT !.items[i].value = child]
            ELSE [node EXCEPT !.items[i].value.items[idx] = child]
    IN At(findPair(node.items, part.key))

RECURSIVE traverseAndSet(_, _, _, _)
RECURSIVE updateYamlPath(_, _, _, _)

\* a variant of lastPart that serialises the embedded document before
\* updating it
lastPart_staleText(node, part, value, newValue, nestedPath) ==
    LET Written(nested, text) ==
            IF text.throws
            THEN After(nested, Outcome("throw", node, nested.log))
            ELSE After(nested, Outcome("true", set(node, part.key, text.out),
                                       Append(nested.log,
                                              "L236_updated_nested")))
        Nested(nested) ==
            CASE nested.ret = "true" ->
                   Written(nested, toString(parseDocument(value.v)))
              [] nested.ret = "throw" ->
                   After(nested, Outcome("throw", node, nested.log))
              [] OTHER ->
                   After(nested, Outcome("false", node,
                                         Append(nested.log,
                                                "L240_expected_string")))
    IN IF nestedPath # << >>
       THEN IF isString(value)
            THEN Nested(WithParse(updateYamlPath(parseDocument(value.v),
                                              nestedPath, newValue, << >>)))
            ELSE Outcome("false", node, << "L240_expected_string" >>)
       ELSE Outcome("true", set(node, part.key, newValue), << "L246_updated" >>)

\* a variant of lastPart that, when the nested update fails, goes on to the
\* direct update before it returns false
lastPart_fallsThrough(node, part, value, newValue, nestedPath) ==
    LET Written(nested, text) ==
            IF text.throws
            THEN After(nested, Outcome("throw", node, nested.log))
            ELSE After(nested, Outcome("true", set(node, part.key, text.out),
                                       Append(nested.log,
                                              "L236_updated_nested")))
        Nested(nested) ==
            CASE nested.ret = "true" -> Written(nested, toString(nested.doc))
              [] nested.ret = "throw" ->
                   After(nested, Outcome("throw", node, nested.log))
              [] OTHER ->
                   After(nested, Outcome("false", set(node, part.key, newValue),
                                         Append(nested.log,
                                                "L240_expected_string")))
    IN IF nestedPath # << >>
       THEN IF isString(value)
            THEN Nested(WithParse(updateYamlPath(parseDocument(value.v),
                                              nestedPath, newValue, << >>)))
            ELSE Outcome("false", set(node, part.key, newValue),
                         << "L240_expected_string" >>)
       ELSE Outcome("true", set(node, part.key, newValue), << "L246_updated" >>)

\* a variant of lastPart that hands the nested path on to the nested call
lastPart_passesNestedPath(node, part, value, newValue, nestedPath) ==
    LET Written(nested, text) ==
            IF text.throws
            THEN After(nested, Outcome("throw", node, nested.log))
            ELSE After(nested, Outcome("true", set(node, part.key, text.out),
                                       Append(nested.log,
                                              "L236_updated_nested")))
        Nested(nested) ==
            CASE nested.ret = "true" -> Written(nested, toString(nested.doc))
              [] nested.ret = "throw" ->
                   After(nested, Outcome("throw", node, nested.log))
              [] OTHER ->
                   After(nested, Outcome("false", node,
                                         Append(nested.log,
                                                "L240_expected_string")))
    IN IF nestedPath # << >>
       THEN IF isString(value)
            THEN Nested(WithParse(updateYamlPath(parseDocument(value.v),
                                              nestedPath, newValue,
                                              nestedPath)))
            ELSE Outcome("false", node, << "L240_expected_string" >>)
       ELSE Outcome("true", set(node, part.key, newValue), << "L246_updated" >>)

\* step 3 of traverseAndSet: the last part of the path
lastPart(node, part, value, newValue, nestedPath) ==
    LET Written(nested, text) ==
            IF text.throws
            THEN After(nested, Outcome("throw", node, nested.log))
            ELSE After(nested, Outcome("true", set(node, part.key, text.out),
                                       Append(nested.log,
                                              "L236_updated_nested")))
        Nested(nested) ==
            CASE nested.ret = "true" -> Written(nested, toString(nested.doc))
              [] nested.ret = "throw" ->
                   After(nested, Outcome("throw", node, nested.log))
              [] OTHER ->
                   After(nested, Outcome("false", node,
                                         Append(nested.log,
                                                "L240_expected_string")))
    IN IF nestedPath # << >>
       THEN IF isString(value)
            THEN Nested(WithParse(updateYamlPath(parseDocument(value.v),
                                              nestedPath, newValue, << >>)))
            ELSE Outcome("false", node, << "L240_expected_string" >>)
       ELSE Outcome("true", set(node, part.key, newValue), << "L246_updated" >>)

traverseAndSet(node, parts, newValue, nestedPath) ==
    LET Below(sel, r) ==
            After(r, Outcome(r.ret, withChild(node, parts[1], sel.idx, r.node),
                             r.log))
        Selected(sel) ==
            IF ~sel.ok THEN Outcome("false", node, sel.log)
            ELSE IF Len(parts) = 1
            THEN lastPart(node, parts[1], sel.value, newValue, nestedPath)
            ELSE Below(sel, traverseAndSet(sel.value, Tail(parts), newValue,
                                           nestedPath))
    IN IF Len(parts) = 0 THEN Outcome("false", node, << >>)
       ELSE IF isMap(node)
       THEN Selected(resolveSelector(get(node, parts[1].key), parts[1]))
       ELSE Outcome("false", node, << "L255_expected_map" >>)

\* the document as the call left it, with the call's result and messages
updateYamlPath(doc, path, newValue, nestedPath) ==
    LET Result(r) ==
            [ret |-> r.ret, doc |-> [doc EXCEPT !.contents = r.node],
             log |-> r.log, n |-> r.n, docs |-> r.docs]
    IN Result(traverseAndSet(doc.contents, parsePath(path), newValue,
                             nestedPath))

(***************************************************************************)
(* updateLegacy                                                             *)
(***************************************************************************)
KeySpec == << "s", "p", "e", "c" >>
KeyTemplate == << "t", "e", "m", "p", "l", "a", "t", "e" >>
KeyContainers == << "c", "o", "n", "t", "a", "i", "n", "e", "r", "s" >>
KeyName == << "n", "a", "m", "e" >>
KeyImage == << "i", "m", "a", "g", "e" >>
ContainersPath == << KeySpec, KeyTemplate, KeySpec, KeyContainers >>

\* Collection.getIn(keys): the node the keys lead to through mappings,
\* undefined when a key is absent or a node on the way is no mapping (a
\* sequence has no item for a key that is no index)
RECURSIVE getIn(_, _)
getIn(node, keys) ==
    IF keys = << >> THEN node
    ELSE IF isMap(node) THEN getIn(get(node, Head(keys)), Tail(keys))
    ELSE Undef

\* the tree after the node the keys lead to was mutated in place into child
RECURSIVE withIn(_, _, _)
withIn(node, keys, child) ==
    LET At(i) == [node EXCEPT !.items[i].value =
                     withIn(node.items[i].value, Tail(keys), child)]
    IN IF keys = << >> THEN child ELSE At(findPair(node.items, Head(keys)))

\* a variant of updateLegacy that takes the last container of the name
updateLegacy_lastNamed(doc, image, container) ==
    LET Set(containers, i, said) ==
            [ret |-> "true",
             doc |-> [doc EXCEPT !.contents =
                         withIn(doc.contents, ContainersPath,
                                [containers EXCEPT !.items[i] =
                                    set(containers.items[i], KeyImage, image)])],
             log |-> << said >>]
        Named(containers, found) ==
            IF found # 0
            THEN Set(containers, found, "L88_updating_container")
            ELSE [ret |-> "false", doc |-> doc,
                  log |-> << "L92_container_not_found" >>]
        Of(containers) ==
            IF isSeq(containers)
            THEN IF container # << >>
                 THEN Named(containers,
                            find_last(containers.items,
                                      [key |-> KeyName, value |-> container,
                                       present |-> TRUE]))
                 ELSE IF Len(containers.items) > 0
                         /\ isMap(containers.items[1])
                 THEN Set(containers, 1, "L98_updating_first")
                 ELSE [ret |-> "false", doc |-> doc, log |-> << >>]
            ELSE [ret |-> "false", doc |-> doc, log |-> << >>]
    IN Of(getIn(doc.contents, ContainersPath))

updateLegacy(doc, image, container) ==
    LET Set(containers, i, said) ==
            [ret |-> "true",
             doc |-> [doc EXCEPT !.contents =
                         withIn(doc.contents, ContainersPath,
                                [containers EXCEPT !.items[i] =
                                    set(containers.items[i], KeyImage, image)])],
             log |-> << said >>]
        Named(containers, found) ==
            IF found # 0
            THEN Set(containers, found, "L88_updating_container")
            ELSE [ret |-> "false", doc |-> doc,
                  log |-> << "L92_container_not_found" >>]
        Of(containers) ==
            IF isSeq(containers)
            THEN IF container # << >>
                 THEN Named(containers,
                            find(containers.items,
                                 [key |-> KeyName, value |-> container,
                                  present |-> TRUE]))
                 ELSE IF Len(containers.items) > 0
                         /\ isMap(containers.items[1])
                 THEN Set(containers, 1, "L98_updating_first")
                 ELSE [ret |-> "false", doc |-> doc, log |-> << >>]
            ELSE [ret |-> "false", doc |-> doc, log |-> << >>]
    IN Of(getIn(doc.contents, ContainersPath))

(***************************************************************************)
(* getCommitInfo and the commit message                                     *)
(***************************************************************************)
\* Array.prototype.pop on a list that is not empty: the last element, and
\* what is left
last(xs) == xs[Len(xs)]
butLast(xs) == SubSeq(xs, 1, Len(xs) - 1)

\* a || b for strings: b when a is the empty string
orElse(a, b) == IF a = << >> THEN b ELSE a

\* index of the first occurrence of sub in s at or after from, 0 when none
RECURSIVE indexOf(_, _, _)
indexOf(s, sub, from) ==
    IF from + Len(sub) - 1 > Len(s) THEN 0
    ELSE IF SubSeq(s, from, from + Len(sub) - 1) = sub THEN from
    ELSE indexOf(s, sub, from + 1)

\* String.prototype.replace(sub, ''): s without the first occurrence of sub
removeFirst(s, sub) ==
    LET At(i) ==
            IF i = 0 THEN s
            ELSE SubSeq(s, 1, i - 1) \o SubSeq(s, i + Len(sub), Len(s))
    IN At(indexOf(s, sub, 1))

NameOpen == << "[", "n", "a", "m", "e", "=" >>
DotYaml == << ".", "y", "a", "m", "l" >>
Latest == << "l", "a", "t", "e", "s", "t" >>
Unknown == << "u", "n", "k", "n", "o", "w", "n" >>

\* yamlPath.match(/\[name=([^\]]+)\]/): group 1 of the leftmost match, << >>
\* when there is none.  At an occurrence of "[name=" the group takes every
\* character up to the next ']', which must exist and leave the group not
\* empty.
RECURSIVE matchName(_, _)
matchName(s, from) ==
    LET Closed(open, close) ==
            IF close > open + Len(NameOpen)
            THEN SubSeq(s, open + Len(NameOpen), close - 1)
            ELSE matchName(s, open + 1)
        At(open) ==
            IF open = 0 THEN << >>
            ELSE Closed(open, IndexFrom(s, "]", open + Len(NameOpen)))
    IN At(indexOf(s, NameOpen, from))

\* a variant of imageTag that takes what follows the first ':'
imageTag_afterFirstColon(image) ==
    LET Of(imageParts) ==
            orElse(IF Len(imageParts) > 1 THEN imageParts[2] ELSE imageParts[1],
                   Latest)
    IN Of(split(image, ":"))

\* imageTag = imageParts.pop() || 'latest'
imageTag(image) == orElse(last(split(image, ":")), Latest)

\* a variant of imageName that takes the component from the whole image
imageName_ofWholeImage(image) ==
    orElse(last(split(image, "/")), Unknown)

\* imagePath = imageParts.join(':'), imageName = imagePath.split('/').pop()
\* || 'unknown'
imageName(image) ==
    LET Of(imagePath) == orElse(last(split(imagePath, "/")), Unknown)
    IN Of(Join(butLast(split(image, ":")), << ":" >>))

\* the scope of getCommitInfo
scope(yamlPath, container, manifest) ==
    LET FromManifest(sc) ==
            IF sc # << >> THEN sc
            ELSE removeFirst(last(split(manifest, "/")), DotYaml)
        FromContainer(sc) ==
            FromManifest(IF sc = << >> THEN container ELSE sc)
    IN FromContainer(matchName(yamlPath, 1))

getCommitInfo(image, yamlPath, container, manifest) ==
    [scope |-> scope(yamlPath, container, manifest),
     imageTag |-> imageTag(image),
     imageName |-> imageName(image)]

\* the message of directUpdate and createPullRequest
message(info) ==
    IF info.scope # << >>
    THEN << "c", "i", "(" >> \o info.scope
         \o << ")", ":", SP, "u", "p", "d", "a", "t", "e", SP >>
         \o info.imageName \o << SP, "t", "o", SP >> \o info.imageTag
    ELSE << "c", "i", ":", SP, "u", "p", "d", "a", "t", "e", SP >>
         \o info.imageName \o << SP, "t", "o", SP >> \o info.imageTag

\* config.branch
Branch == << "m", "a", "i", "n" >>

\* update-${scope}-${imageTag}, or update-image-${Date.now()} (the time
\* stands as one character)
branchName(i) ==
    IF i.scope # << >>
    THEN << "u", "p", "d", "a", "t", "e", "-" >> \o i.scope \o << "-" >>
         \o i.imageTag
    ELSE << "u", "p", "d", "a", "t", "e", "-", "i", "m", "a", "g", "e", "-",
            "T" >>

\* a call of the GitHub client: the method, and the commit message and the
\* branch it is given (<< >> for a call that takes none)
Call(op, msg, branch) == [op |-> op, message |-> msg, branch |-> branch]

(***************************************************************************)
(* resolveRepoFilePath (restack-code), over POSIX paths                     *)
(***************************************************************************)
\* String.prototype.trim, for the white space the paths here can hold
RECURSIVE trimStart(_)
trimStart(s) ==
    IF s # << >> /\ Head(s) \in { SP, NL } THEN trimStart(Tail(s)) ELSE s
RECURSIVE trimEnd(_)
trimEnd(s) ==
    IF s # << >> /\ last(s) \in { SP, NL } THEN trimEnd(butLast(s)) ELSE s
trim(s) == trimEnd(trimStart(s))

startsWith(s, prefix) ==
    Len(s) >= Len(prefix) /\ SubSeq(s, 1, Len(prefix)) = prefix

DotDot == << ".", "." >>

\* path.isAbsolute
isAbsolute(p) == p # << >> /\ p[1] = "/"

\* the segments of an absolute path after normalisation: empty segments and
\* '.' are dropped, '..' drops the segment before it and is dropped itself
\* at the root
RECURSIVE normalizeSegments(_, _)
normalizeSegments(segs, acc) ==
    IF segs = << >> THEN acc
    ELSE IF Head(segs) = << >> \/ Head(segs) = << "." >>
    THEN normalizeSegments(Tail(segs), acc)
    ELSE IF Head(segs) = DotDot
    THEN normalizeSegments(Tail(segs),
                           IF acc = << >> THEN acc ELSE butLast(acc))
    ELSE normalizeSegments(Tail(segs), Append(acc, Head(segs)))

\* path.resolve(from, to) for an absolute from: to on its own when it is
\* absolute, else from/to; normalised, with no trailing slash
resolve(from, to) ==
    << "/" >> \o Join(normalizeSegments(
                          split(IF isAbsolute(to) THEN to
                                ELSE from \o << "/" >> \o to, "/"),
                          << >>),
                      << "/" >>)

\* the segments of a normalised absolute path
segmentsOf(abs) == IF abs = << "/" >> THEN << >> ELSE split(Tail(abs), "/")

\* the length of the longest common prefix of two lists
RECURSIVE commonPrefix(_, _)
commonPrefix(xs, ys) ==
    IF xs = << >> \/ ys = << >> THEN 0
    ELSE IF Head(xs) # Head(ys) THEN 0
    ELSE 1 + commonPrefix(Tail(xs), Tail(ys))

\* path.relative(from, to) for absolute paths: one '..' for every segment of
\* from below the common prefix, then the segments of to below it
relative(from, to) ==
    LET Of(fs, ts) ==
            LET Below(k) ==
                    Join([i \in 1..(Len(fs) - k) |-> DotDot]
                         \o SubSeq(ts, k + 1, Len(ts)), << "/" >>)
            IN Below(commonPrefix(fs, ts))
    IN Of(segmentsOf(resolve(from, << >>)), segmentsOf(resolve(to, << >>)))

ReturnsNull == [null |-> TRUE]

\* a variant of resolveRepoFilePath that only refuses the root itself
resolveRepoFilePath_noEscapeCheck(root, action) ==
    LET Checked(resolvedPath, relativePath) ==
            IF relativePath = << >> THEN ReturnsNull
            ELSE [null |-> FALSE, resolvedPath |-> resolvedPath,
                  relativePath |-> relativePath]
        Resolved(resolvedPath) ==
            Checked(resolvedPath, relative(root, resolvedPath))
        Trimmed(trimmed) ==
            IF trimmed = << >> THEN ReturnsNull
            ELSE Resolved(resolve(root, trimmed))
    IN IF action = << >> THEN ReturnsNull ELSE Trimmed(trim(action))

resolveRepoFilePath(root, action) ==
    LET Checked(resolvedPath, relativePath) ==
            IF \/ relativePath = << >>
               \/ startsWith(relativePath, DotDot)
               \/ isAbsolute(relativePath)
            THEN ReturnsNull
            ELSE [null |-> FALSE, resolvedPath |-> resolvedPath,
                  relativePath |-> relativePath]
        Resolved(resolvedPath) ==
            Checked(resolvedPath, relative(root, resolvedPath))
        Trimmed(trimmed) ==
            IF trimmed = << >> THEN ReturnsNull
            ELSE Resolved(resolve(root, trimmed))
    IN IF action = << >> THEN ReturnsNull ELSE Trimmed(trim(action))

(***************************************************************************)
(* validateYAMLNoDuplicateKeys (restack-code)                               *)
(***************************************************************************)
\* [a-zA-Z0-9_-]
IsKeyChar(c) == c \in Letters \/ c \in Digits \/ c = "-"

\* the length of the longest run of key characters s starts with
RECURSIVE keyRun(_)
keyRun(s) == IF s # << >> /\ IsKeyChar(s[1]) THEN 1 + keyRun(Tail(s)) ELSE 0

\* line.match(/^(\s*)([a-zA-Z0-9_-]+):/): the indentation and the key
matchKey(text) ==
    LET Keyed(indent, rest, n) ==
            IF n > 0 /\ Len(rest) > n /\ rest[n + 1] = ":"
            THEN [ok |-> TRUE, indent |-> indent, key |-> SubSeq(rest, 1, n)]
            ELSE [ok |-> FALSE, indent |-> 0, key |-> << >>]
        Indented(indent) ==
            Keyed(indent, SubSeq(text, indent + 1, Len(text)),
                  keyRun(SubSeq(text, indent + 1, Len(text))))
    IN Indented(leadingSpaces(text))

NoDuplicate == [null |-> TRUE, key |-> << >>, line |-> 0, indent |-> 0]

\* the loop over the lines from line i on; keysByLevel holds the pairs
\* << level, key >> seen and not cleared
RECURSIVE validateFrom(_, _, _)
validateFrom(lines, i, keysByLevel) ==
    LET Kept(indent) == { lk \in keysByLevel : lk[1] <= indent }
        Matched(match) ==
            IF ~match.ok THEN validateFrom(lines, i + 1, keysByLevel)
            ELSE IF << match.indent, match.key >> \in Kept(match.indent)
            THEN [null |-> FALSE, key |-> match.key, line |-> i,
                  indent |-> match.indent]
            ELSE validateFrom(lines, i + 1,
                              Kept(match.indent)
                              \cup { << match.indent, match.key >> })
        Trimmed(trimmed) ==
            IF trimmed = << >> \/ trimmed[1] = "#"
            THEN validateFrom(lines, i + 1, keysByLevel)
            ELSE Matched(matchKey(lines[i]))
    IN IF i > Len(lines) THEN NoDuplicate ELSE Trimmed(trim(lines[i]))

validateYAMLNoDuplicateKeys(text) == validateFrom(split(text, NL), 1, { })

(***************************************************************************)
(* The state machine: one updateYamlPath call on a parsed document          *)
(***************************************************************************)
VARIABLES
    doc,         \* the Document handed to updateYamlPath, as the call left it
    before,      \* the same Document as it was when the call was made
    path,        \* the call's arguments
    newValue,
    nestedPath,  \* << >> when no nested path is given
    updated,     \* "none" before the call, then "true", "false" or "throw"
    log,         \* the messages the call passed to this.log
    descent,     \* the traverseAndSet and parseDocument calls the call made
    pc,          \* the operation under way and its position
    steps,       \* what parsePath returned
    containerName,  \* the rest of the action's configuration
    manifestPath,
    createPr,
    calls,       \* the calls made to the GitHub client, in order
    info,        \* what getCommitInfo returned
    repoRoot,    \* the arguments of resolveRepoFilePath
    actionPath,
    resolved,    \* what resolveRepoFilePath returned
    inputs,      \* restack-code: what core.getInput gave run
    llmResponse, \* what the LLM answered, as run reads it
    locals,      \* run's local variables
    worktree,    \* the checkout: its branch, the files written, the index
    outputs,     \* the core.setOutput calls made, in order
    yamlContent, \* the argument of validateYAMLNoDuplicateKeys
    validationError  \* what validateYAMLNoDuplicateKeys returned

documentVars == << doc, before, updated, log, descent >>
inputVars == << path, newValue, nestedPath >>
configVars == << containerName, manifestPath, createPr >>
clientVars == << calls, info >>
repoPathVars == << repoRoot, actionPath, resolved >>
runVars == << inputs, llmResponse, locals, worktree, outputs >>
yamlVars == << yamlContent, validationError >>
restackVars == << runVars, yamlVars >>

vars == << documentVars, inputVars, pc, steps, configVars, clientVars,
           repoPathVars, restackVars >>

NoDescent == [n |-> 0, docs |-> 0]

\* the variables an operation does not use, at rest
NoDocument ==
    /\ doc = [contents |-> [t |-> "undef"], errors |-> << >>]
    /\ before = doc
    /\ updated = "none"
    /\ log = << >>
    /\ descent = NoDescent
NoPath == steps = << >>
NoConfig ==
    /\ containerName = << >>
    /\ manifestPath = << >>
    /\ createPr = FALSE
NoClient ==
    /\ calls = << >>
    /\ info = [scope |-> << >>, imageTag |-> << >>, imageName |-> << >>]
NoRepoPath ==
    /\ repoRoot = << >>
    /\ actionPath = << >>
    /\ resolved = ReturnsNull
NoRun ==
    /\ inputs = << >>
    /\ llmResponse = << >>
    /\ locals = << >>
    /\ worktree = << >>
    /\ outputs = << >>
NoYaml ==
    /\ yamlContent = << >>
    /\ validationError = NoDuplicate
NoRestack == NoRun /\ NoYaml

\* longest sequence under the key a of an initial document
MaxItems == 2

\* embedded YAML texts
TextMap == << "i", ":", SP, "x", NL >>
TextSeq == << "c", ":", NL,
              SP, SP, "-", SP, "n", ":", SP, "r", NL,
              SP, SP, SP, SP, "i", ":", SP, "x", NL >>
TextDuplicateKey == << "i", ":", SP, "x", NL, "i", ":", SP, "y", NL >>
TextDeep == << "h", ":", SP, "|", NL, SP, SP, "i", ":", SP, "x", NL >>
TextCommented == << "#", SP, "c", NL, "i", ":", SP, "1", NL >>

Literal(text) == Scalar("str", text, "lit", << >>)

ItemOf(name, leaf) ==
    Map(<< Pair(Str(<< "n" >>), name), Pair(Str(<< "h" >>), leaf) >>)

\* the elements a sequence is built from: mappings named x (one of them
\* commented), X, the number 1 and the string "1", and a scalar
Items ==
    { Commented(ItemOf(Str(<< "x" >>), Literal(TextMap)), << SP, "c" >>),
      ItemOf(Str(<< "x" >>), Str(<< "w" >>)),
      ItemOf(Str(<< "X" >>), Literal(TextMap)),
      ItemOf(Num(<< "1" >>), Literal(TextMap)),
      ItemOf(Scalar("str", << "1" >>, "dq", << >>), Literal(TextSeq)),
      Str(<< "x" >>) }

RECURSIVE SeqsUpTo(_, _)
SeqsUpTo(S, n) ==
    IF n = 0 THEN { << >> }
    ELSE LET shorter == SeqsUpTo(S, n - 1)
         IN shorter \cup { Append(s, e) : s \in shorter, e \in S }

\* the values under the key k
Leaves ==
    { Literal(TextMap), Literal(TextSeq), Literal(TextDuplicateKey),
      Literal(TextDeep), Literal(TextCommented),
      Scalar("str", TextMap, "dq", << >>),
      Str(<< "w" >>), Num(<< "1" >>), Scalar("str", << >>, "dq", << >>),
      Map(<< Pair(Str(<< "h" >>), Literal(TextMap)) >>) }

Root(items, leaf) ==
    Map(<< Pair(Commented(Str(<< "a" >>), << SP, "c", "0" >>), Seq_(items)),
           Pair(Str(<< "k" >>), leaf) >>)

Document(contents) == [contents |-> contents, errors |-> << >>]

InitDocs ==
    { Document(Root(s, Literal(TextMap))) : s \in SeqsUpTo(Items, MaxItems) }
    \cup { Document(Root(<< Str(<< "x" >>),
                            ItemOf(Str(<< "x" >>), Literal(TextMap)) >>, l)) :
             l \in Leaves }
    \cup { Document(Null), Document(Str(<< "w" >>)),
           Document(Seq_(<< Str(<< "x" >>) >>)) }

Paths ==
    { << "a", "[", "n", "=", "x", "]", ".", "h" >>,
      << "a", "[", "n", "=", "X", "]", ".", "h" >>,
      << "a", "[", "n", "=", "1", "]", ".", "h" >>,
      << "a", "[", "n", "=", "y", "]", ".", "h" >>,
      << "a", "[", "n", "=", "x", "]" >>,
      << "a", ".", "h" >>,
      << "a" >>,
      << "k" >>,
      << "k", ".", "h" >>,
      << "k", "[", "n", "=", "x", "]" >>,
      << "z" >>,
      << "z", ".", "h" >> }

NestedPaths ==
    { << >>,
      << "i" >>,
      << "h" >>,
      << "c", "[", "n", "=", "r", "]", ".", "i" >>,
      << "c", "[", "n", "=", "r", "]" >>,
      << "z", ".", "i" >> }

NewValues == { << "v" >>, << "2" >> }

Init ==
    /\ doc \in InitDocs
    /\ before = doc
    /\ path = << >>
    /\ newValue = << >>
    /\ nestedPath = << >>
    /\ updated = "none"
    /\ log = << >>
    /\ descent = NoDescent
    /\ pc = "updateYamlPath"
    /\ NoPath
    /\ NoConfig
    /\ NoClient
    /\ NoRepoPath
    /\ NoRestack

\* updated = this.updateYamlPath(doc, yamlPath, image, nestedYamlPath)
Update(p, v, np) ==
    /\ updated = "none"
    /\ \E r \in { updateYamlPath(doc, p, v, np) } :
          /\ doc' = r.doc
          /\ updated' = r.ret
          /\ log' = r.log
          /\ descent' = [n |-> r.n, docs |-> r.docs]
    /\ before' = doc
    /\ path' = p
    /\ newValue' = v
    /\ nestedPath' = np
    /\ UNCHANGED << pc, steps, configVars, clientVars, repoPathVars,
                    restackVars >>

Next == \E p \in Paths, v \in NewValues, np \in NestedPaths : Update(p, v, np)

Spec == Init /\ [][Next]_vars

(***************************************************************************)
(* parsePath on its own                                                     *)
(***************************************************************************)
\* longest path string taken character by character
MaxPathLen == 5
\* most segments of a path string put together from PathSegments
MaxSegments == 3

PathAlphabet == { "a", "b", ".", "[", "]", "=" }

PathSegments ==
    { << "a" >>,
      << >>,
      << "a", "[", "n", "=", "x", "]" >>,
      << "a", "b", "[", "n", "1", "=", "x", "-", "y", "]" >>,
      << "a", "[", "n", "=", "x", "]", "]" >>,
      << "a", "[", "n", "=", "x", "]", "[", "k", "=", "y", "]" >>,
      << "a", "[", "n", "=", "x" >>,
      << "a", "[", "n", "=", "]" >>,
      << "a", "-", "b", "[", "n", "=", "x", "]" >>,
      << "a", "[", "n", "-", "=", "x", "]" >>,
      << "a", "[", "n", "=", "x", "]", "b" >> }

PathStrings ==
    SeqsUpTo(PathAlphabet, MaxPathLen)
    \cup { Join(ss, << "." >>) : ss \in SeqsUpTo(PathSegments, MaxSegments) }

PathInit ==
    /\ path \in PathStrings
    /\ pc = "parsePath"
    /\ steps = << >>
    /\ newValue = << >>
    /\ nestedPath = << >>
    /\ NoDocument
    /\ NoConfig
    /\ NoClient
    /\ NoRepoPath
    /\ NoRestack

\* parts = this.parsePath(path)
ParsePath ==
    /\ pc = "parsePath"
    /\ steps' = parsePath(path)
    /\ pc' = "parsed"
    /\ UNCHANGED << documentVars, inputVars, configVars, clientVars,
                    repoPathVars, restackVars >>

PathNext == ParsePath

PathSpec == PathInit /\ [][PathNext]_vars

(***************************************************************************)
(* directUpdate on its own, as the tests call it                            *)
(***************************************************************************)
\* longest image string taken character by character
MaxImageLen == 4

ImageAlphabet == { "a", "/", ":" }

ImageDeepfx ==
    << "r", "e", "s", "t", "a", "c", "k", "/", "d", "e", "e", "p", "f",
       "x", ":", "m", "a", "i", "n", "-", "a", "6", "d", "6", "1", "9",
       "3" >>
ImageBareTag ==
    << "m", "a", "i", "n", "-", "a", "6", "d", "6", "1", "9", "3" >>
PathHelmValues ==
    << "a", "p", "p", "s", "[", "n", "a", "m", "e", "=", "d", "e", "e",
       "p", "f", "x", "]", ".", "s", "o", "u", "r", "c", "e", ".", "h",
       "e", "l", "m", ".", "v", "a", "l", "u", "e", "s" >>
PathTargetRevision ==
    << "a", "p", "p", "s", "[", "n", "a", "m", "e", "=", "d", "e", "e",
       "p", "f", "x", "]", ".", "s", "o", "u", "r", "c", "e", ".", "t",
       "a", "r", "g", "e", "t", "R", "e", "v", "i", "s", "i", "o", "n" >>
NestedImageTag ==
    << "a", "p", "p", "s", "[", "n", "a", "m", "e", "=", "d", "e", "e",
       "p", "f", "x", "]", ".", "i", "m", "a", "g", "e", ".", "t", "a",
       "g" >>
ManifestDeepfx ==
    << "p", "l", "a", "t", "f", "o", "r", "m", "/", "s", "t", "a", "c",
       "k", "s", "/", "0", "5", "-", "w", "o", "r", "k", "l", "o", "a",
       "d", "s", "/", "o", "v", "e", "r", "l", "a", "y", "s", "/", "h",
       "o", "m", "e", "/", "d", "e", "e", "p", "f", "x", ".", "y", "a",
       "m", "l" >>

Images ==
    SeqsUpTo(ImageAlphabet, MaxImageLen) \cup { ImageDeepfx, ImageBareTag }

YamlPaths ==
    { << >>,
      PathHelmValues,
      PathTargetRevision,
      << "a", ".", "b" >>,
      << "a", "[", "n", "a", "m", "e", "=", "x", "]", ".", "b", "[", "n",
         "a", "m", "e", "=", "y", "]" >>,
      << "a", "[", "n", "a", "m", "e", "=", "]", ".", "b", "[", "n", "a",
         "m", "e", "=", "y", "]" >>,
      << "a", "[", "n", "a", "m", "e", "=", "x" >> }

NestedYamlPaths == { << >>, NestedImageTag }

ContainerNames == { << >>, << "w", "e", "b" >> }

ManifestPaths ==
    { ManifestDeepfx,
      << "k", "8", "s", "/", "a", "p", "p", ".", "y", "m", "l" >>,
      << "a", "p", "p", ".", "y", "a", "m", "l" >>,
      << "k", "8", "s", "/", "a", ".", "y", "a", "m", "l", ".", "b" >>,
      << "k", "8", "s", "/" >> }

CommitInit ==
    /\ newValue \in Images
    /\ path \in YamlPaths
    /\ nestedPath \in NestedYamlPaths
    /\ containerName \in ContainerNames
    /\ manifestPath \in ManifestPaths
    /\ createPr = FALSE
    /\ pc = "directUpdate"
    /\ NoClient
    /\ NoDocument
    /\ NoPath
    /\ NoRepoPath
    /\ NoRestack

\* directUpdate: the commit information, then the file update with the
\* message built from it
DirectUpdate ==
    /\ pc = "directUpdate"
    /\ \E i \in { getCommitInfo(newValue, path, containerName, manifestPath) } :
          /\ info' = i
          /\ calls' = Append(calls, Call("repos.createOrUpdateFileContents",
                                         message(i), Branch))
    /\ pc' = "done"
    /\ UNCHANGED << documentVars, inputVars, steps, configVars, repoPathVars,
                    restackVars >>

CommitNext == DirectUpdate

CommitSpec == CommitInit /\ [][CommitNext]_vars

(***************************************************************************)
(* run: fetch the manifest, update it, write it back                        *)
(***************************************************************************)
TextDeployment ==
    << "s", "p", "e", "c", ":", NL, SP, SP, "t", "e", "m", "p", "l", "a",
       "t", "e", ":", NL, SP, SP, SP, SP, "s", "p", "e", "c", ":", NL, SP,
       SP, SP, SP, SP, SP, "c", "o", "n", "t", "a", "i", "n", "e", "r",
       "s", ":", NL, SP, SP, SP, SP, SP, SP, SP, SP, "-", SP, "n", "a",
       "m", "e", ":", SP, "a", "p", "i", NL, SP, SP, SP, SP, SP, SP, SP,
       SP, SP, SP, "i", "m", "a", "g", "e", ":", SP, "r", "/", "a", ":",
       "1", NL, SP, SP, SP, SP, SP, SP, SP, SP, "-", SP, "n", "a", "m",
       "e", ":", SP, "w", "e", "b", NL, SP, SP, SP, SP, SP, SP, SP, SP, SP,
       SP, "i", "m", "a", "g", "e", ":", SP, "r", "/", "w", ":", "1", NL,
       SP, SP, SP, SP, SP, SP, SP, SP, "-", SP, "n", "a", "m", "e", ":",
       SP, "w", "e", "b", NL, SP, SP, SP, SP, SP, SP, SP, SP, SP, SP, "i",
       "m", "a", "g", "e", ":", SP, "r", "/", "w", ":", "0", NL >>
TextDeploymentNoName ==
    << "s", "p", "e", "c", ":", NL, SP, SP, "t", "e", "m", "p", "l", "a",
       "t", "e", ":", NL, SP, SP, SP, SP, "s", "p", "e", "c", ":", NL, SP,
       SP, SP, SP, SP, SP, "c", "o", "n", "t", "a", "i", "n", "e", "r",
       "s", ":", NL, SP, SP, SP, SP, SP, SP, SP, SP, "-", SP, "w", NL, SP,
       SP, SP, SP, SP, SP, SP, SP, "-", SP, "i", "m", "a", "g", "e", ":",
       SP, "r", "/", "w", ":", "1", NL >>
TextApps ==
    << "a", ":", NL, SP, SP, "-", SP, "n", ":", SP, "x", NL, SP, SP, SP,
       SP, "h", ":", SP, "|", NL, SP, SP, SP, SP, SP, SP, "i", ":", SP,
       "r", "/", "w", ":", "1", NL, SP, SP, "-", SP, "n", ":", SP, "x", NL,
       SP, SP, SP, SP, "h", ":", SP, "w", NL, "i", ":", SP, "r", "/", "w",
       ":", "1", NL >>

TextDeploymentEmpty ==
    << "s", "p", "e", "c", ":", NL, SP, SP, "t", "e", "m", "p", "l", "a",
       "t", "e", ":", NL, SP, SP, SP, SP, "s", "p", "e", "c", ":", NL, SP,
       SP, SP, SP, SP, SP, "c", "o", "n", "t", "a", "i", "n", "e", "r",
       "s", ":", SP, "[", "]", NL >>
TextDeploymentNoImage ==
    << "s", "p", "e", "c", ":", NL, SP, SP, "t", "e", "m", "p", "l", "a",
       "t", "e", ":", NL, SP, SP, SP, SP, "s", "p", "e", "c", ":", NL, SP,
       SP, SP, SP, SP, SP, "c", "o", "n", "t", "a", "i", "n", "e", "r",
       "s", ":", NL, SP, SP, SP, SP, SP, SP, SP, SP, "-", SP, "n", "a",
       "m", "e", ":", SP, "w", "e", "b", NL, SP, SP, SP, SP, SP, SP, SP,
       SP, "-", SP, "n", "a", "m", "e", ":", SP, "d", "b", NL, SP, SP, SP,
       SP, SP, SP, SP, SP, SP, SP, "i", "m", "a", "g", "e", ":", SP, "r",
       "/", "d", ":", "1", NL >>

\* what repos.getContent answers: a file with this content, or "directory"
\* for an answer without content, or "rejected"
Contents ==
    { TextDeployment, TextDeploymentNoName, TextDeploymentEmpty,
      TextDeploymentNoImage, TextApps, TextMap, TextDuplicateKey, << >> }

RunPaths ==
    { << >>,
      << "i" >>,
      << "z", ".", "i" >>,
      << "a", "[", "n", "=", "x", "]", ".", "h" >>,
      << "a", "[", "n", "=", "y", "]", ".", "h" >> }

RunInit ==
    /\ path \in RunPaths
    /\ newValue = << "r", "/", "w", ":", "2" >>
    /\ nestedPath \in { << >>, << "i" >> }
    /\ containerName \in { << >>, << "w", "e", "b" >>, << "d", "b" >> }
    /\ manifestPath = << "k", "/", "d", ".", "y", "a", "m", "l" >>
    /\ createPr \in BOOLEAN
    /\ pc = "getOctokit"
    /\ NoDocument
    /\ NoClient
    /\ NoPath
    /\ NoRepoPath
    /\ NoRestack

\* octokit = await this.appClient.getOctokit()
GetOctokit(ok) ==
    /\ pc = "getOctokit"
    /\ pc' = IF ok THEN "getContent" ELSE "handleError"
    /\ UNCHANGED << documentVars, inputVars, steps, configVars, clientVars,
                    repoPathVars, restackVars >>

\* await octokit.repos.getContent(...), rejected
GetContentRejected ==
    /\ pc = "getContent"
    /\ calls' = Append(calls, Call("repos.getContent", << >>, Branch))
    /\ pc' = "handleError"
    /\ UNCHANGED << documentVars, inputVars, steps, configVars, info,
                    repoPathVars, restackVars >>

\* await octokit.repos.getContent(...), answered without content
GetContentDirectory ==
    /\ pc = "getContent"
    /\ calls' = Append(calls, Call("repos.getContent", << >>, Branch))
    /\ pc' = "done"
    /\ UNCHANGED << documentVars, inputVars, steps, configVars, info,
                    repoPathVars, restackVars >>

\* await octokit.repos.getContent(...), answered with a file:
\* doc = parseDocument(content), updated = false
GetContent(content) ==
    /\ pc = "getContent"
    /\ calls' = Append(calls, Call("repos.getContent", << >>, Branch))
    /\ \E d \in { parseDocument(content) } :
          /\ doc' = d
          /\ before' = d
    /\ updated' = "false"
    /\ pc' = "update"
    /\ UNCHANGED << log, descent, inputVars, steps, configVars, info,
                    repoPathVars, restackVars >>

\* updated = config.yamlPath ? this.updateYamlPath(...) :
\* this.updateLegacy(...)
Mutate ==
    /\ pc = "update"
    /\ \E r \in { IF path # << >>
                  THEN updateYamlPath(doc, path, newValue, nestedPath)
                  ELSE updateLegacy(doc, newValue, containerName) } :
          /\ doc' = r.doc
          /\ updated' = r.ret
          /\ log' = r.log
          /\ descent' = IF path # << >> THEN [n |-> r.n, docs |-> r.docs]
                         ELSE NoDescent
          /\ pc' = IF r.ret = "throw" THEN "handleError" ELSE "updated"
    /\ before' = doc
    /\ UNCHANGED << inputVars, steps, configVars, clientVars, repoPathVars,
                    restackVars >>

\* a variant of NoChanges that logs and goes on to write
NoChanges_goesOn ==
    /\ pc = "updated"
    /\ updated = "false"
    /\ log' = Append(log, "L63_no_changes")
    /\ pc' = IF createPr THEN "createPullRequest" ELSE "directUpdate"
    /\ UNCHANGED << doc, before, updated, descent, inputVars, steps,
                    configVars, clientVars, repoPathVars, restackVars >>

\* if (!updated) { this.log('No changes made to manifest'); return; }
NoChanges ==
    /\ pc = "updated"
    /\ updated = "false"
    /\ log' = Append(log, "L63_no_changes")
    /\ pc' = "done"
    /\ UNCHANGED << doc, before, updated, descent, inputVars, steps,
                    configVars, clientVars, repoPathVars, restackVars >>

\* updatedContent = doc.toString(), then the way to write it
Serialize ==
    /\ pc = "updated"
    /\ updated = "true"
    /\ \E text \in { toString(doc) } :
          pc' = IF text.throws THEN "handleError"
                ELSE IF createPr THEN "createPullRequest"
                ELSE "directUpdate"
    /\ UNCHANGED << documentVars, inputVars, steps, configVars, clientVars,
                    repoPathVars, restackVars >>

\* directUpdate whose file update is rejected
DirectUpdateRejected ==
    /\ pc = "directUpdate"
    /\ \E i \in { getCommitInfo(newValue, path, containerName, manifestPath) } :
          /\ info' = i
          /\ calls' = Append(calls, Call("repos.createOrUpdateFileContents",
                                         message(i), Branch))
    /\ pc' = "handleError"
    /\ UNCHANGED << documentVars, inputVars, steps, configVars, repoPathVars,
                    restackVars >>

\* createPullRequest up to its first call: await octokit.git.getRef(...)
GetRef(ok) ==
    /\ pc = "createPullRequest"
    /\ info' = getCommitInfo(newValue, path, containerName, manifestPath)
    /\ calls' = Append(calls, Call("git.getRef", << >>, Branch))
    /\ pc' = IF ok THEN "createRef" ELSE "handleError"
    /\ UNCHANGED << documentVars, inputVars, steps, configVars, repoPathVars,
                    restackVars >>

\* await octokit.git.createRef(...)
CreateRef(ok) ==
    /\ pc = "createRef"
    /\ calls' = Append(calls, Call("git.createRef", << >>, branchName(info)))
    /\ pc' = IF ok THEN "updateFile" ELSE "handleError"
    /\ UNCHANGED << documentVars, inputVars, steps, configVars, info,
                    repoPathVars, restackVars >>

\* a variant of UpdateFile that writes to config.branch
UpdateFile_onBaseBranch(ok) ==
    /\ pc = "updateFile"
    /\ calls' = Append(calls, Call("repos.createOrUpdateFileContents",
                                   message(info), Branch))
    /\ pc' = IF ok THEN "createPr" ELSE "handleError"
    /\ UNCHANGED << documentVars, inputVars, steps, configVars, info,
                    repoPathVars, restackVars >>

\* await octokit.repos.createOrUpdateFileContents(...) on the new branch
UpdateFile(ok) ==
    /\ pc = "updateFile"
    /\ calls' = Append(calls, Call("repos.createOrUpdateFileContents",
                                   message(info), branchName(info)))
    /\ pc' = IF ok THEN "createPr" ELSE "handleError"
    /\ UNCHANGED << documentVars, inputVars, steps, configVars, info,
                    repoPathVars, restackVars >>

\* await octokit.pulls.create(...)
PullsCreate(ok) ==
    /\ pc = "createPr"
    /\ calls' = Append(calls, Call("pulls.create", << >>, branchName(info)))
    /\ pc' = IF ok THEN "done" ELSE "handleError"
    /\ UNCHANGED << documentVars, inputVars, steps, configVars, info,
                    repoPathVars, restackVars >>

\* catch (error) { await this.handleError(error); }
HandleError ==
    /\ pc = "handleError"
    /\ pc' = "failed"
    /\ UNCHANGED << documentVars, inputVars, steps, configVars, clientVars,
                    repoPathVars, restackVars >>

RunNext ==
    \/ \E ok \in BOOLEAN : GetOctokit(ok)
    \/ GetContentRejected
    \/ GetContentDirectory
    \/ \E content \in Contents : GetContent(content)
    \/ Mutate
    \/ NoChanges
    \/ Serialize
    \/ DirectUpdate
    \/ DirectUpdateRejected
    \/ \E ok \in BOOLEAN : GetRef(ok)
    \/ \E ok \in BOOLEAN : CreateRef(ok)
    \/ \E ok \in BOOLEAN : UpdateFile(ok)
    \/ \E ok \in BOOLEAN : PullsCreate(ok)
    \/ HandleError

RunSpec == RunInit /\ [][RunNext]_vars

(***************************************************************************)
(* resolveRepoFilePath on its own                                           *)
(***************************************************************************)
\* longest action path taken character by character
MaxActionPathLen == 6

ActionPathAlphabet == { "a", ".", "/", SP }

RepoRoots ==
    { << "/" >>,
      << "/", "r" >>,
      << "/", "r", "/", "a" >>,
      << "/", "r", "/" >> }

RepoPathInit ==
    /\ repoRoot \in RepoRoots
    /\ actionPath \in SeqsUpTo(ActionPathAlphabet, MaxActionPathLen)
    /\ resolved = ReturnsNull
    /\ pc = "resolveRepoFilePath"
    /\ path = << >>
    /\ newValue = << >>
    /\ nestedPath = << >>
    /\ NoDocument
    /\ NoPath
    /\ NoConfig
    /\ NoClient
    /\ NoRestack

\* result = resolveRepoFilePath(repoRoot, actionPath)
ResolveRepoFilePath ==
    /\ pc = "resolveRepoFilePath"
    /\ resolved' = resolveRepoFilePath(repoRoot, actionPath)
    /\ pc' = "resolved"
    /\ UNCHANGED << documentVars, inputVars, steps, configVars, clientVars,
                    repoRoot, actionPath, restackVars >>

RepoPathNext == ResolveRepoFilePath

RepoPathSpec == RepoPathInit /\ [][RepoPathNext]_vars

(***************************************************************************)
(* validateYAMLNoDuplicateKeys on the text of a YAML document               *)
(***************************************************************************)
MaxEntries == 2

YamlKeys == { << "a" >>, << "b" >> }

\* mappings of up to MaxEntries entries with the given values, keys free to
\* repeat
MapsOf(values) ==
    { Map(entries) :
        entries \in SeqsUpTo({ Pair(Str(k), v) : k \in YamlKeys, v \in values },
                             MaxEntries) }

FlatMaps == MapsOf({ Num(<< "1" >>) })

\* the documents validated: a mapping whose values are a number, a mapping
\* of numbers or a sequence of mappings of numbers
YamlDocs ==
    { Document(m) :
        m \in MapsOf({ Num(<< "1" >>) }
                     \cup (FlatMaps \ { Map(<< >>) })
                     \cup { Seq_(items) :
                              items \in SeqsUpTo(FlatMaps \ { Map(<< >>) },
                                                 MaxEntries) \ { << >> } }) }

ValidateInit ==
    /\ doc \in YamlDocs
    /\ before = doc
    /\ updated = "none"
    /\ log = << >>
    /\ descent = NoDescent
    /\ yamlContent = toString(doc).out
    /\ validationError = NoDuplicate
    /\ pc = "validateYAMLNoDuplicateKeys"
    /\ path = << >>
    /\ newValue = << >>
    /\ nestedPath = << >>
    /\ NoPath
    /\ NoConfig
    /\ NoClient
    /\ NoRepoPath
    /\ NoRun

\* validationError = validateYAMLNoDuplicateKeys(contentToWrite)
Validate ==
    /\ pc = "validateYAMLNoDuplicateKeys"
    /\ validationError' = validateYAMLNoDuplicateKeys(yamlContent)
    /\ pc' = "validated"
    /\ UNCHANGED << documentVars, inputVars, steps, configVars, clientVars,
                    repoPathVars, runVars, yamlContent >>

ValidateNext == Validate

ValidateSpec == ValidateInit /\ [][ValidateNext]_vars

(***************************************************************************)
(* restack-code: run                                                        *)
(*                                                                          *)
(* Paths are strings of characters; every other text (a message, a title,   *)
(* a branch name, a URL) is a list of pieces, << >> the empty string.  The  *)
(* LLM response stands as what tryParseActionResponse,                      *)
(* looksLikeUnifiedDiff and splitPatchBlocks read from it.  worktree.written *)
(* holds the absolute paths run wrote or deleted, worktree.staged the paths *)
(* handed to git add, git rm or staged by git apply --index.                *)
(***************************************************************************)
GITHUB_WORKSPACE == << "/", "r" >>

DefaultCommitMessage == << "Apply changes suggested by restack-code" >>
DefaultPrTitle == << "chore: Apply LLM suggested changes" >>
DefaultPrBody == << "This PR contains changes suggested by restack-code." >>
DefaultBranch == << "restack/llm-suggestions" >>
ReviewComment == << "pull_request_review_comment" >>
IssueComment == << "issue_comment" >>
HeadRef == << "feature" >>
ExistingPrUrl == << "html_url of prs[0]" >>
CreatedPrUrl == << "html_url of the PR created" >>
GeneratedBy == << "Generated by restack-code" >>
DotYml == << ".", "y", "m", "l" >>
PatchName == << "l", "l", "m", "_", "s", "u", "g", "g", "e", "s", "t", "e", "d", ".", "p", "a", "t", "c", "h" >>

endsWith(s, suffix) ==
    Len(s) >= Len(suffix)
    /\ SubSeq(s, Len(s) - Len(suffix) + 1, Len(s)) = suffix

\* path.join(a, b) for an absolute a: a/b normalised (an absolute b does not
\* start over)
join(a, b) ==
    << "/" >> \o Join(normalizeSegments(split(a \o << "/" >> \o b, "/"),
                                        << >>),
                      << "/" >>)

\* the values run reads with core.getInput and the defaults it puts in
commitMessage == orElse(inputs.commit_message, DefaultCommitMessage)
prTitle == orElse(inputs.pr_title, DefaultPrTitle)
prBody == orElse(inputs.pr_body, DefaultPrBody)
isPRReviewComment == inputs.event_name = ReviewComment
usesPRBranch == isPRReviewComment /\ inputs.pr_head_ref # << >>
canComment ==
    inputs.post_comment /\ inputs.octokit /\ inputs.issue_number # << >>

FileAction(type, to, text) == [type |-> type, path |-> to, content |-> text]

ActionResponse(actions, said, title, body) ==
    [null |-> FALSE, actions |-> actions, commit_message |-> said,
     pr_title |-> title, pr_body |-> body]

NoActionResponse ==
    [null |-> TRUE, actions |-> << >>, commit_message |-> << >>,
     pr_title |-> << >>, pr_body |-> << >>]

PatchBlock(filePath, isNewFile) ==
    [filePath |-> filePath, isNewFile |-> isNewFile]

Response(actionResponse, diff, blocks) ==
    [actionResponse |-> actionResponse, looksLikeUnifiedDiff |-> diff,
     blocks |-> blocks]

PathInside == << "s", "/", "a", ".", "t", "s" >>
PathOld == << "b", ".", "t", "s" >>
PathEscaping == << ".", ".", "/", "x" >>
PathAbsolute == << "/", "e", "t", "c", "/", "x" >>
PathYaml == << "k", ".", "y", "a", "m", "l" >>
TextCode == << "x" >>
TextRepeatedKey == << "a", ":", SP, "1", NL, "a", ":", SP, "2", NL >>

LlmResponses ==
    { Response(ActionResponse(<< FileAction("create", PathInside, TextCode),
                                 FileAction("modify", PathEscaping, TextCode),
                                 FileAction("delete", PathOld, << >>) >>,
                              << "commit message of the LLM" >>,
                              << "title of the LLM" >>,
                              << "body of the LLM" >>),
               FALSE, << >>),
      Response(ActionResponse(<< FileAction("create", PathAbsolute, TextCode),
                                 FileAction("modify", PathYaml,
                                            TextRepeatedKey),
                                 FileAction("modify", PathInside, << >>) >>,
                              << >>, << >>, << >>),
               FALSE, << >>),
      Response(ActionResponse(<< >>, << >>, << >>, << >>), FALSE, << >>),
      Response(NoActionResponse, TRUE,
               << PatchBlock(PathOld, FALSE), PatchBlock(PathInside, TRUE) >>),
      Response(NoActionResponse, TRUE, << PatchBlock(PathEscaping, TRUE) >>),
      Response(NoActionResponse, TRUE, << PatchBlock(PathOld, FALSE) >>),
      Response(NoActionResponse, FALSE, << >>) }

\* (post_comment, issue_number) and (commit_message, pr_title, pr_body) as
\* the workflow gives them
CommentInputs == { << FALSE, << >> >>, << TRUE, << "7" >> >> }
TextInputs ==
    { << << >>, << >>, << >> >>,
      << << "commit message of the workflow" >>, << >>, << >> >>,
      << << "commit message of the workflow" >>,
         << "title of the workflow" >>, << "body of the workflow" >> >> }

RunInputs ==
    { [event_name |-> e, pr_head_ref |-> h, commit |-> c, create_pr |-> p,
       commit_message |-> t[1], pr_title |-> t[2], pr_body |-> t[3],
       post_comment |-> n[1], issue_number |-> n[2], octokit |-> o,
       branch |-> DefaultBranch] :
        e \in { ReviewComment, IssueComment }, h \in { << >>, HeadRef },
        c \in BOOLEAN, p \in BOOLEAN, t \in TextInputs, n \in CommentInputs,
        o \in BOOLEAN }

Output(name, value) == [name |-> name, value |-> value]

RestackInit ==
    /\ inputs \in RunInputs
    /\ llmResponse = Response(NoActionResponse, FALSE, << >>)
    /\ locals = [hasChanges |-> FALSE, finalCommitMessage |-> << >>,
                 finalPrTitle |-> << >>, finalPrBody |-> << >>,
                 targetBranch |-> << >>, prUrl |-> << >>, changesCount |-> 0,
                 stagedAfterPatch |-> FALSE]
    /\ worktree = [current |-> Branch, written |-> { }, staged |-> { }]
    /\ outputs = << >>
    /\ calls = << >>
    /\ info = [scope |-> << >>, imageTag |-> << >>, imageName |-> << >>]
    /\ pc = "run"
    /\ path = << >>
    /\ newValue = << >>
    /\ nestedPath = << >>
    /\ NoDocument
    /\ NoPath
    /\ NoConfig
    /\ NoRepoPath
    /\ NoYaml

restUnchanged ==
    UNCHANGED << documentVars, inputVars, steps, configVars, info,
                 repoPathVars, yamlVars, inputs >>

\* the branch of run an LLM response takes when commit is true
branchOf(response) ==
    IF ~response.actionResponse.null
       /\ Len(response.actionResponse.actions) > 0
    THEN "actions"
    ELSE IF response.looksLikeUnifiedDiff THEN "patch" ELSE "noActionable"

\* a variant of SendPrompt that does not look at the commit input
SendPrompt_alwaysCommits(response) ==
    /\ pc = "run"
    /\ llmResponse' = response
    /\ outputs' = Append(outputs, Output("llm_response", << "llmResponse" >>))
    /\ locals' = [locals EXCEPT !.finalCommitMessage = commitMessage,
                                !.finalPrTitle = prTitle,
                                !.finalPrBody = prBody]
    /\ pc' = branchOf(response)
    /\ UNCHANGED << worktree, calls >>
    /\ restUnchanged

\* run up to `if (commit)`: the prompt is sent, the response is set as the
\* llm_response output and read
SendPrompt(response) ==
    /\ pc = "run"
    /\ llmResponse' = response
    /\ outputs' = Append(outputs, Output("llm_response", << "llmResponse" >>))
    /\ locals' = IF inputs.commit
                 THEN [locals EXCEPT !.finalCommitMessage = commitMessage,
                                     !.finalPrTitle = prTitle,
                                     !.finalPrBody = prBody]
                 ELSE locals
    /\ pc' = IF inputs.commit THEN branchOf(response) ELSE "notApplied"
    /\ UNCHANGED << worktree, calls >>
    /\ restUnchanged

\* the prompt file cannot be read, or a call before `if (commit)` throws:
\* core.setFailed
SendPromptRejected ==
    /\ pc = "run"
    /\ pc' = "failed"
    /\ UNCHANGED << llmResponse, locals, worktree, outputs, calls >>
    /\ restUnchanged

\* the texts of a JSON response, and the branch it goes to
withFinalTexts(response, target) ==
    [locals EXCEPT
        !.finalCommitMessage =
            orElse(commitMessage,
                   orElse(response.commit_message, DefaultCommitMessage)),
        !.finalPrTitle =
            orElse(prTitle, orElse(response.pr_title, DefaultPrTitle)),
        !.finalPrBody =
            orElse(prBody, orElse(response.pr_body, DefaultPrBody)),
        !.targetBranch = target]

\* JSON actions, a review comment with pr_head_ref: stay on or check out the
\* PR's head branch; a failure is a warning
CheckoutPRBranch(ok) ==
    /\ pc = "actions"
    /\ usesPRBranch
    /\ locals' = withFinalTexts(llmResponse.actionResponse, inputs.pr_head_ref)
    /\ IF worktree.current = inputs.pr_head_ref
       THEN UNCHANGED << worktree, calls >>
       ELSE /\ calls' = Append(calls, Call("git.checkout", << >>,
                                           inputs.pr_head_ref))
            /\ worktree' = IF ok
                           THEN [worktree EXCEPT !.current = inputs.pr_head_ref]
                           ELSE worktree
    /\ pc' = "executeFileActions"
    /\ UNCHANGED << llmResponse, outputs >>
    /\ restUnchanged

\* findExistingPR when there is a client, then the branch is checked out
\* (an existing PR) or created; the calls made
branchCalls(target, found) ==
    (IF inputs.octokit
     THEN << Call("pulls.list", IF found THEN ExistingPrUrl ELSE << >>,
                  target) >>
     ELSE << >>)
    \o << Call(IF inputs.octokit /\ found THEN "git.checkout"
               ELSE "git.checkoutLocalBranch", << >>, target) >>

\* JSON actions otherwise: the configured branch
CheckoutBranch(found, ok) ==
    /\ pc = "actions"
    /\ ~usesPRBranch
    /\ locals' = withFinalTexts(llmResponse.actionResponse, inputs.branch)
    /\ calls' = calls \o branchCalls(inputs.branch, found)
    /\ worktree' = IF ok THEN [worktree EXCEPT !.current = inputs.branch]
                   ELSE worktree
    /\ pc' = IF ok THEN "executeFileActions" ELSE "failed"
    /\ UNCHANGED << llmResponse, outputs >>
    /\ restUnchanged

\* executeFileActions from action i on: tree is the worktree so far, n the
\* changes counted, exists whether a file to delete is there
RECURSIVE executeFrom(_, _, _, _, _)
executeFrom(actions, i, tree, n, exists) ==
    LET Written(safe) ==
            [tree EXCEPT !.written = @ \cup { safe.resolvedPath },
                         !.staged = @ \cup { safe.relativePath }]
        IsYaml(safe) ==
            endsWith(safe.relativePath, DotYaml)
            \/ endsWith(safe.relativePath, DotYml)
        Safe(action, safe) ==
            IF safe.null THEN executeFrom(actions, i + 1, tree, n, exists)
            ELSE IF action.type = "delete"
            THEN IF exists
                 THEN executeFrom(actions, i + 1, Written(safe), n + 1, exists)
                 ELSE executeFrom(actions, i + 1, tree, n, exists)
            ELSE IF action.content = << >>
            THEN executeFrom(actions, i + 1, tree, n, exists)
            ELSE IF IsYaml(safe)
                    /\ ~validateYAMLNoDuplicateKeys(action.content).null
            THEN executeFrom(actions, i + 1, tree, n, exists)
            ELSE executeFrom(actions, i + 1, Written(safe), n + 1, exists)
    IN IF i > Len(actions) THEN [worktree |-> tree, changesCount |-> n]
       ELSE Safe(actions[i],
                 resolveRepoFilePath(GITHUB_WORKSPACE, actions[i].path))

executeFileActions(actions, tree, exists) ==
    executeFrom(actions, 1, tree, 0, exists)

\* a variant of ExecuteFileActions that goes on to commit whatever the
\* staged-changes check said
ExecuteFileActions_commitsAnyway(exists, staged) ==
    /\ pc = "executeFileActions"
    /\ \E r \in { executeFileActions(llmResponse.actionResponse.actions,
                                     worktree, exists) } :
          /\ worktree' = r.worktree
          /\ locals' = [locals EXCEPT !.changesCount = r.changesCount,
                                      !.hasChanges = staged]
    /\ pc' = "commit"
    /\ UNCHANGED << llmResponse, outputs, calls >>
    /\ restUnchanged

\* changesCount = await executeFileActions(...);
\* hasChanges = await hasStagedChanges(git)
ExecuteFileActions(exists, staged) ==
    /\ pc = "executeFileActions"
    /\ \E r \in { executeFileActions(llmResponse.actionResponse.actions,
                                     worktree, exists) } :
          /\ worktree' = r.worktree
          /\ locals' = [locals EXCEPT !.changesCount = r.changesCount,
                                      !.hasChanges = staged]
    /\ pc' = IF staged THEN "commit" ELSE "summary"
    /\ UNCHANGED << llmResponse, outputs, calls >>
    /\ restUnchanged

issueRef ==
    IF inputs.issue_number # << >> /\ ~isPRReviewComment
    THEN << "Closes #" >> \o inputs.issue_number
    ELSE << >>

\* await git.commit(fullCommitMessage)
Commit(ok) ==
    /\ pc = "commit"
    /\ calls' = Append(calls, Call("git.commit",
                                   locals.finalCommitMessage \o issueRef
                                   \o GeneratedBy,
                                   worktree.current))
    /\ pc' = IF ok THEN "push" ELSE "failed"
    /\ UNCHANGED << llmResponse, locals, worktree, outputs >>
    /\ restUnchanged

\* git.push with --force-with-lease and, when that throws, with -f
pushCalls(target, lease) ==
    << Call("git.push", << "--force-with-lease" >>, target) >>
    \o (IF lease THEN << >> ELSE << Call("git.push", << "-f" >>, target) >>)

\* the push, then core.setOutput('commit_sha', sha)
Push(lease, force) ==
    /\ pc = "push"
    /\ calls' = calls \o pushCalls(locals.targetBranch, lease)
    /\ IF lease \/ force
       THEN /\ outputs' = Append(outputs, Output("commit_sha", << "sha" >>))
            /\ pc' = "pullRequest"
       ELSE /\ outputs' = outputs
            /\ pc' = "failed"
    /\ UNCHANGED << llmResponse, locals, worktree >>
    /\ restUnchanged

shouldCreatePR == inputs.create_pr /\ ~isPRReviewComment

\* a variant of FindExistingPRCheck that creates the pull request whatever
\* the lookup found
FindExistingPRCheck_createsAnyway(found) ==
    /\ pc = "pullRequest"
    /\ locals.hasChanges /\ shouldCreatePR /\ inputs.octokit
    /\ calls' = Append(calls, Call("pulls.list",
                                   IF found THEN ExistingPrUrl ELSE << >>,
                                   locals.targetBranch))
    /\ pc' = "pulls.create"
    /\ UNCHANGED << llmResponse, locals, worktree, outputs >>
    /\ restUnchanged

\* existingPRCheck = await findExistingPR(...): an open PR is reported as
\* pr_url, else the pull request is to be created
FindExistingPRCheck(found) ==
    /\ pc = "pullRequest"
    /\ locals.hasChanges /\ shouldCreatePR /\ inputs.octokit
    /\ calls' = Append(calls, Call("pulls.list",
                                   IF found THEN ExistingPrUrl ELSE << >>,
                                   locals.targetBranch))
    /\ IF found
       THEN /\ locals' = [locals EXCEPT !.prUrl = ExistingPrUrl]
            /\ outputs' = outputs
                          \o << Output("pr_url", ExistingPrUrl),
                                Output("summary", << "updated existing PR" >>) >>
            /\ pc' = "postComment"
       ELSE /\ UNCHANGED << locals, outputs >>
            /\ pc' = "pulls.create"
    /\ UNCHANGED << llmResponse, worktree >>
    /\ restUnchanged

\* await octokit.pulls.create(...), a rejection is a warning
OpenPullRequest(ok) ==
    /\ pc = "pulls.create"
    /\ calls' = Append(calls, Call("pulls.create", locals.finalPrTitle,
                                   locals.targetBranch))
    /\ IF ok
       THEN /\ locals' = [locals EXCEPT !.prUrl = CreatedPrUrl]
            /\ outputs' = outputs
                          \o << Output("pr_url", CreatedPrUrl),
                                Output("summary", << "created PR" >>) >>
       ELSE /\ locals' = locals
            /\ outputs' = Append(outputs, Output("summary",
                                                 << "failed to create PR" >>))
    /\ pc' = "postComment"
    /\ UNCHANGED << llmResponse, worktree >>
    /\ restUnchanged

\* the summary when no pull request is looked up
Summarize ==
    /\ pc \in { "pullRequest", "summary" }
    /\ ~(locals.hasChanges /\ shouldCreatePR /\ inputs.octokit)
    /\ outputs' =
         Append(outputs,
                Output("summary",
                       IF locals.hasChanges /\ isPRReviewComment
                       THEN << "pushed to existing PR branch" >>
                       ELSE IF locals.hasChanges THEN << "pushed commit" >>
                       ELSE << "No file changes were applied." >>))
    /\ pc' = "postComment"
    /\ UNCHANGED << llmResponse, locals, worktree, calls >>
    /\ restUnchanged

\* postComment when post_comment, a client and an issue number are there
commentCalls ==
    IF canComment
    THEN << Call("issues.createComment", inputs.issue_number, << >>) >>
    ELSE << >>

PostComment ==
    /\ pc = "postComment"
    /\ calls' = calls \o commentCalls
    /\ pc' = "done"
    /\ UNCHANGED << llmResponse, locals, worktree, outputs >>
    /\ restUnchanged

\* a unified diff: the configured branch is checked out or created
PatchCheckout(found, ok) ==
    /\ pc = "patch"
    /\ calls' = calls \o branchCalls(inputs.branch, found)
    /\ worktree' = IF ok THEN [worktree EXCEPT !.current = inputs.branch]
                   ELSE worktree
    /\ pc' = IF ok THEN "applyPatch" ELSE "failed"
    /\ UNCHANGED << llmResponse, locals, outputs >>
    /\ restUnchanged

\* the path lies in the repository: git add accepts it
inRepository(absolutePath) ==
    startsWith(segmentsOf(absolutePath), segmentsOf(GITHUB_WORKSPACE))
    /\ absolutePath # GITHUB_WORKSPACE

\* applyNewFileBlocksForExistingFiles from block i on: a new-file block is
\* written to path.join(repoRoot, block.filePath) and added; git add throws
\* for a path outside the repository
RECURSIVE applyFrom(_, _, _, _)
applyFrom(blocks, i, tree, kept) ==
    LET At(block, absolutePath) ==
            IF block.filePath = << >> \/ ~block.isNewFile
            THEN applyFrom(blocks, i + 1, tree, Append(kept, block))
            ELSE IF ~inRepository(absolutePath)
            THEN [throws |-> TRUE, kept |-> kept,
                  worktree |-> [tree EXCEPT !.written =
                                   @ \cup { absolutePath }]]
            ELSE applyFrom(blocks, i + 1,
                           [tree EXCEPT !.written = @ \cup { absolutePath },
                                        !.staged = @ \cup { block.filePath }],
                           kept)
    IN IF i > Len(blocks)
       THEN [throws |-> FALSE, kept |-> kept, worktree |-> tree]
       ELSE At(blocks[i], join(GITHUB_WORKSPACE, blocks[i].filePath))

applyNewFileBlocksForExistingFiles(blocks, tree) ==
    applyFrom(blocks, 1, tree, << >>)

\* the blocks left are written to llm_suggested.patch and applied with
\* git apply --index
gitApply(tree, kept) ==
    [tree EXCEPT
        !.written = @ \cup { join(GITHUB_WORKSPACE, PatchName) }
                      \cup { join(GITHUB_WORKSPACE, kept[k].filePath) :
                               k \in 1..Len(kept) },
        !.staged = @ \cup { kept[k].filePath : k \in 1..Len(kept) }]

\* the patch is applied; stagedAfterPatch = await hasStagedChanges(git),
\* and nothing staged ends the run
ApplyPatch(ok, staged) ==
    /\ pc = "applyPatch"
    /\ \E r \in { applyNewFileBlocksForExistingFiles(llmResponse.blocks,
                                                     worktree) } :
          IF r.throws \/ (r.kept # << >> /\ ~ok)
          THEN /\ worktree' = r.worktree
               /\ pc' = "failed"
               /\ UNCHANGED << outputs, locals >>
          ELSE /\ worktree' = IF r.kept # << >>
                              THEN gitApply(r.worktree, r.kept)
                              ELSE r.worktree
               /\ locals' = [locals EXCEPT !.stagedAfterPatch = staged]
               /\ pc' = IF staged THEN "patchCommit" ELSE "done"
               /\ outputs' =
                    IF staged THEN outputs
                    ELSE Append(outputs,
                                Output("summary",
                                       << "No changes after applying patch." >>))
    /\ UNCHANGED << llmResponse, calls >>
    /\ restUnchanged

\* await git.commit(commitMessage)
PatchCommit(ok) ==
    /\ pc = "patchCommit"
    /\ calls' = Append(calls, Call("git.commit", commitMessage,
                                   worktree.current))
    /\ pc' = IF ok THEN "patchPush" ELSE "failed"
    /\ UNCHANGED << llmResponse, locals, worktree, outputs >>
    /\ restUnchanged

\* the push to the configured branch, then commit_sha and hasChanges = true
PatchPush(lease, force) ==
    /\ pc = "patchPush"
    /\ calls' = calls \o pushCalls(inputs.branch, lease)
    /\ IF lease \/ force
       THEN /\ outputs' = Append(outputs, Output("commit_sha", << "sha" >>))
            /\ locals' = [locals EXCEPT !.hasChanges = TRUE]
            /\ pc' = "patchPullRequest"
       ELSE /\ UNCHANGED << outputs, locals >>
            /\ pc' = "failed"
    /\ UNCHANGED << llmResponse, worktree >>
    /\ restUnchanged

PatchSummary == Output("summary", << "Applied patch and pushed commit." >>)

\* if (createPr && octokit): the lookup before the pull request
PatchFindExistingPR(found) ==
    /\ pc = "patchPullRequest"
    /\ inputs.create_pr /\ inputs.octokit
    /\ calls' = Append(calls, Call("pulls.list",
                                   IF found THEN ExistingPrUrl ELSE << >>,
                                   inputs.branch))
    /\ IF found
       THEN /\ outputs' = outputs \o << Output("pr_url", ExistingPrUrl),
                                        PatchSummary >>
            /\ pc' = "done"
       ELSE /\ outputs' = outputs
            /\ pc' = "patchPullsCreate"
    /\ UNCHANGED << llmResponse, locals, worktree >>
    /\ restUnchanged

\* await octokit.pulls.create(...) with the workflow's title and body
PatchOpenPullRequest(ok) ==
    /\ pc = "patchPullsCreate"
    /\ calls' = Append(calls, Call("pulls.create", prTitle, inputs.branch))
    /\ outputs' = IF ok
                  THEN outputs \o << Output("pr_url", CreatedPrUrl),
                                     PatchSummary >>
                  ELSE Append(outputs, PatchSummary)
    /\ pc' = "done"
    /\ UNCHANGED << llmResponse, locals, worktree >>
    /\ restUnchanged

\* no pull request asked for, or no client
PatchSummarize ==
    /\ pc = "patchPullRequest"
    /\ ~(inputs.create_pr /\ inputs.octokit)
    /\ outputs' = Append(outputs, PatchSummary)
    /\ pc' = "done"
    /\ UNCHANGED << llmResponse, locals, worktree, calls >>
    /\ restUnchanged

\* commit is true and the response is neither JSON actions nor a diff
NoActionable ==
    /\ pc = "noActionable"
    /\ outputs' = Append(outputs, Output("summary",
                                         << "No actionable response" >>))
    /\ calls' = calls \o commentCalls
    /\ pc' = "done"
    /\ UNCHANGED << llmResponse, locals, worktree >>
    /\ restUnchanged

\* commit is not true: the summary and, when asked for, a comment
NotApplied ==
    /\ pc = "notApplied"
    /\ outputs' = Append(outputs, Output("summary",
                                         << "suggestions (not applied)" >>))
    /\ calls' = calls \o commentCalls
    /\ pc' = "done"
    /\ UNCHANGED << llmResponse, locals, worktree >>
    /\ restUnchanged

RestackNext ==
    \/ \E response \in LlmResponses : SendPrompt(response)
    \/ SendPromptRejected
    \/ \E ok \in BOOLEAN : CheckoutPRBranch(ok)
    \/ \E found, ok \in BOOLEAN : CheckoutBranch(found, ok)
    \/ \E exists, staged \in BOOLEAN : ExecuteFileActions(exists, staged)
    \/ \E ok \in BOOLEAN : Commit(ok)
    \/ \E lease, force \in BOOLEAN : Push(lease, force)
    \/ \E found \in BOOLEAN : FindExistingPRCheck(found)
    \/ \E ok \in BOOLEAN : OpenPullRequest(ok)
    \/ Summarize
    \/ PostComment
    \/ \E found, ok \in BOOLEAN : PatchCheckout(found, ok)
    \/ \E ok, staged \in BOOLEAN : ApplyPatch(ok, staged)
    \/ \E ok \in BOOLEAN : PatchCommit(ok)
    \/ \E lease, force \in BOOLEAN : PatchPush(lease, force)
    \/ \E found \in BOOLEAN : PatchFindExistingPR(found)
    \/ \E ok \in BOOLEAN : PatchOpenPullRequest(ok)
    \/ PatchSummarize
    \/ NoActionable
    \/ NotApplied

RestackSpec == RestackInit /\ [][RestackNext]_vars

(***************************************************************************)
(* What the specification says about a path: where it resolves.            *)
(* These definitions state the claims; the code's own traversal is          *)
(* traverseAndSet above.                                                    *)
(***************************************************************************)
Called == updated # "none"

parts == parsePath(path)
nestedParts == parsePath(nestedPath)

\* an element a selector matches: a mapping whose entry at the predicate key
\* is a string equal to the predicate value
Matches(item, selector) ==
    /\ item.t = "map"
    /\ get(item, selector.key).t = "str"
    /\ get(item, selector.key).v = selector.value

\* the first matching element's index, 0 when no element matches
firstMatch(items, selector) ==
    IF \E i \in 1..Len(items) : Matches(items[i], selector)
    THEN CHOOSE i \in 1..Len(items) :
            /\ Matches(items[i], selector)
            /\ \A j \in 1..(i - 1) : ~Matches(items[j], selector)
    ELSE 0

\* Following ps from node: kind "ok" with the value the last step resolves
\* to and the mapping that step looked its key up in, or what stopped it:
\* "notMap" (the node a step starts from is no mapping), "missingKey",
\* "notSeq" (a selector step's value is no sequence), "noMatch".
RECURSIVE Resolve(_, _)
Resolve(node, ps) ==
    LET Stop(kind) == [kind |-> kind, value |-> Undef, parent |-> node]
        Reached(value) ==
            IF Len(ps) = 1
            THEN [kind |-> "ok", value |-> value, parent |-> node]
            ELSE Resolve(value, Tail(ps))
        looked == get(node, ps[1].key)
        m == firstMatch(looked.items, ps[1].selector)
    IN IF node.t # "map" THEN Stop("notMap")
       ELSE IF looked = Undef THEN Stop("missingKey")
       ELSE IF ~ps[1].selector.present THEN Reached(looked)
       ELSE IF looked.t # "seq" THEN Stop("notSeq")
       ELSE IF m = 0 THEN Stop("noMatch")
       ELSE Reached(looked.items[m])

Hole == Str(<< "?" >>)

\* node with the value at the location ps resolves to cut out
RECURSIVE Erase(_, _)
Erase(node, ps) ==
    LET i == findPair(node.items, ps[1].key)
        looked == node.items[i].value
        m == firstMatch(looked.items, ps[1].selector)
    IN IF node.t # "map" THEN node
       ELSE IF i = 0 THEN node
       ELSE IF ~ps[1].selector.present
       THEN [node EXCEPT !.items[i].value =
                IF Len(ps) = 1 THEN Hole ELSE Erase(looked, Tail(ps))]
       ELSE IF looked.t # "seq" THEN node
       ELSE IF m = 0 THEN node
       ELSE [node EXCEPT !.items[i].value.items[m] =
                IF Len(ps) = 1 THEN Hole ELSE Erase(looked.items[m], Tail(ps))]

\* a tree without the presentation of its scalars
RECURSIVE Plain(_)
Plain(node) ==
    CASE node.t = "map" ->
           [t |-> "map", c |-> node.c,
            items |-> [i \in 1..Len(node.items) |->
                          Pair(Plain(node.items[i].key),
                               Plain(node.items[i].value))]]
      [] node.t = "seq" ->
           [t |-> "seq", c |-> node.c,
            items |-> [i \in 1..Len(node.items) |-> Plain(node.items[i])]]
      [] node.t = "undef" -> node
      [] OTHER -> [t |-> node.t, v |-> node.v, c |-> node.c]

\* the call's path resolved in the document before the call, and after it
Target == Resolve(before.contents, parts)
TargetAfter == Resolve(doc.contents, parts)

\* the path resolves to a string leaf and a nested path is given
NestedCall ==
    /\ Called
    /\ nestedPath # << >>
    /\ Target.kind = "ok"
    /\ Target.value.t = "str"

\* the embedded document of a nested call, freshly parsed
Embedded == parseDocument(Target.value.v)
\* the nested path resolved in it
NestedTarget == Resolve(Embedded.contents, nestedParts)
\* updateYamlPath called on it directly, with no nested path
Direct == updateYamlPath(Embedded, nestedPath, newValue, << >>)
\* the string leaf after the call, parsed again
Reparsed == parseDocument(TargetAfter.value.v)

(***************************************************************************)
(* The claims                                                               *)
(***************************************************************************)

\* C1: nested round trip.  When the path resolves to a string leaf holding
\* valid YAML and the nested path resolves inside it, the call returns true
\* and the leaf's new text, parsed again, is the document that
\* updateYamlPath yields on the parsed leaf directly, with no nested path.
C1_NestedRoundTrip ==
    (/\ NestedCall
     /\ Embedded.errors = << >>
     /\ NestedTarget.kind = "ok")
    => /\ updated = "true"
       /\ TargetAfter.kind = "ok"
       /\ TargetAfter.value.t = "str"
       /\ Reparsed.errors = << >>
       /\ Direct.ret = "true"
       /\ Plain(Reparsed.contents) = Plain(Direct.doc.contents)

\* C1 happens: a nested call went through a selector to a leaf, its nested
\* path went through a selector inside the embedded document, and the new
\* value is one that must be quoted to read back as a string
C1_Witness ==
    /\ NestedCall
    /\ Embedded.errors = << >>
    /\ NestedTarget.kind = "ok"
    /\ Len(nestedParts) = 2
    /\ nestedParts[1].selector.present
    /\ parts[1].selector.present
    /\ LooksNumeric(newValue)
    /\ updated = "true"

\* C2: single mutation locality.  A successful call on a path that resolves
\* changes nothing but the value at the resolved location.
C2_Locality ==
    (Called /\ updated = "true" /\ Target.kind = "ok")
    => Erase(doc.contents, parts) = Erase(before.contents, parts)

\* C2 where the last step of the path carries no selector (locality as the
\* code keeps it)
C2_LocalityWithoutLastSelector ==
    (/\ Called
     /\ updated = "true"
     /\ Target.kind = "ok"
     /\ ~parts[Len(parts)].selector.present)
    => Erase(doc.contents, parts) = Erase(before.contents, parts)

\* C3: a false result means nothing was written.
C3_FalseWritesNothing == updated = "false" => doc = before

\* C3 happens: a call with a nested path on a string leaf returned false
C3_Witness == NestedCall /\ updated = "false" /\ Embedded.contents.t = "map"

\* the sequence the first part of the path selects from, before the call
\* and after it
Selected == get(before.contents, parts[1].key)
SelectedAfter == get(doc.contents, parts[1].key)
SelectorCall ==
    /\ Called
    /\ parts[1].selector.present
    /\ before.contents.t = "map"
    /\ Selected.t = "seq"

\* C4: selector resolution.  The element a selector step resolves to is the
\* first mapping whose predicate entry is a string equal to the predicate
\* value: with no such element the call returns false and writes nothing;
\* otherwise, when the path goes on below the element, no other element of
\* the sequence changes and a successful direct update lands in that
\* element.
C4_SelectorFirstMatch ==
    SelectorCall =>
        LET m == firstMatch(Selected.items, parts[1].selector)
        IN IF m = 0
           THEN updated = "false" /\ doc = before
           ELSE Len(parts) = 2 =>
                /\ SelectedAfter.t = "seq"
                /\ Len(SelectedAfter.items) = Len(Selected.items)
                /\ \A j \in 1..Len(Selected.items) :
                      j # m => SelectedAfter.items[j] = Selected.items[j]
                /\ (updated = "true" /\ nestedPath = << >>)
                   => /\ get(SelectedAfter.items[m], parts[2].key).t = "str"
                      /\ get(SelectedAfter.items[m], parts[2].key).v = newValue

\* C4 happens: the match was found behind an element that does not match,
\* or in front of a later duplicate
C4_Witness ==
    /\ SelectorCall
    /\ Len(parts) = 2
    /\ updated = "true"
    /\ LET m == firstMatch(Selected.items, parts[1].selector)
       IN \/ m > 1
          \/ m = 1 /\ Len(Selected.items) > 1
                   /\ Matches(Selected.items[2], parts[1].selector)

\* C5: terminal write with a selector.  When the last step carries a
\* selector and no nested path is given, the outer mapping's entry at the
\* step's key is still the same sequence with as many elements.
C5_SequenceKept ==
    (/\ Called
     /\ updated = "true"
     /\ nestedPath = << >>
     /\ parts[Len(parts)].selector.present
     /\ Target.kind = "ok")
    => /\ TargetAfter.kind = "ok"
       /\ get(TargetAfter.parent, parts[Len(parts)].key).t = "seq"
       /\ Len(get(TargetAfter.parent, parts[Len(parts)].key).items)
          = Len(get(Target.parent, parts[Len(parts)].key).items)

\* C6: a key that is absent from the mapping reached at some step, the last
\* one included, makes the call return false and write nothing.
C6_MissingKeyFails ==
    (Called /\ Target.kind = "missingKey")
    => updated = "false" /\ doc = before

\* C7: with a nested path, the outer entry is overwritten with the
\* serialised embedded document if and only if the working value is a string
\* and the nested update of the parsed value returns true; otherwise the
\* call returns false and the document is as before.
C7_CommitIffInnerSuccess ==
    (Called /\ nestedPath # << >>)
    => IF NestedCall /\ Direct.ret = "true"
       THEN /\ updated = "true"
            /\ TargetAfter.kind = "ok"
            /\ TargetAfter.value.t = "str"
            /\ ~toString(Direct.doc).throws
            /\ TargetAfter.value.v = toString(Direct.doc).out
       ELSE updated = "false" /\ doc = before

\* C7 for an embedded text that parses without errors
C7_CommitIffInnerSuccessValidText ==
    (Called /\ nestedPath # << >>
     /\ (NestedCall => Embedded.errors = << >>))
    => IF NestedCall /\ Direct.ret = "true"
       THEN /\ updated = "true"
            /\ TargetAfter.kind = "ok"
            /\ TargetAfter.value.t = "str"
            /\ TargetAfter.value.v = toString(Direct.doc).out
       ELSE updated = "false" /\ doc = before

\* the nested path leads, inside the embedded document, to a string leaf
\* that itself holds a YAML mapping: a value two levels of embedding deep
DeepCall ==
    /\ NestedCall
    /\ Embedded.errors = << >>
    /\ NestedTarget.kind = "ok"
    /\ NestedTarget.value.t = "str"
    /\ parseDocument(NestedTarget.value.v).errors = << >>
    /\ parseDocument(NestedTarget.value.v).contents.t = "map"

\* the entry the last step of the nested path writes, in the embedded
\* document parsed again after the call
WrittenEntry ==
    get(Resolve(Reparsed.contents, nestedParts).parent,
        nestedParts[Len(nestedParts)].key)

C9_InvalidEmbeddedFails ==
    (NestedCall /\ Embedded.errors # << >>) => updated = "false"

\* C10: type mismatches fail.  When the node a step starts from is not a
\* mapping (the root, an empty document's root, or a non-last step's value)
\* or a selector step's value is not a sequence, in the document or in the
\* embedded document of a nested call, the call returns false and writes
\* nothing.
C10_TypeMismatchFails ==
    (/\ Called
     /\ \/ Target.kind \in {"notMap", "notSeq"}
        \/ NestedCall /\ NestedTarget.kind \in {"notMap", "notSeq"})
    => updated = "false" /\ doc = before

\* C10 happens: a selector step found a string where a sequence is required
C10_Witness ==
    /\ Called
    /\ Target.kind = "notSeq"
    /\ get(Target.parent, parts[Len(parts)].key).t = "str"
    /\ updated = "false"

\* C11: failures are reported, never thrown.  No call leaves updateYamlPath
\* as an exception, and every call that returns false has logged at least
\* one diagnostic message.
C11_ReportedNeverThrown ==
    Called => /\ updated # "throw"
              /\ updated = "false" => log # << >>

\* C11 for the calls that return: a false result always comes with a
\* diagnostic message
C11_FalseIsLogged == updated = "false" => log # << >>

\* the characters of a key and of a predicate key
WordChar(ch) == ch \in Letters \cup Digits

\* the positions of the dots of the path, and the k-th of them (0 in front
\* of the path, one past its end behind the last)
Dots == { i \in 1..Len(path) : path[i] = "." }
DotAt(k) ==
    IF k = 0 THEN 0
    ELSE IF k > Cardinality(Dots) THEN Len(path) + 1
    ELSE CHOOSE i \in Dots : Cardinality({ j \in Dots : j < i }) = k - 1
\* the k-th segment: what stands between one dot and the next
Segment(k) == SubSeq(path, DotAt(k - 1) + 1, DotAt(k) - 1)

\* seg reads key[pk=pv] with the '[' at lb and the '=' at eq, key and pk
\* runs of word characters and pv not empty and free of ']'
SelectorForm(seg, lb, eq) ==
    /\ 1 < lb
    /\ lb + 1 < eq
    /\ eq + 1 < Len(seg)
    /\ seg[lb] = "["
    /\ seg[eq] = "="
    /\ seg[Len(seg)] = "]"
    /\ \A i \in 1..(lb - 1) : WordChar(seg[i])
    /\ \A i \in (lb + 1)..(eq - 1) : WordChar(seg[i])
    /\ \A i \in (eq + 1)..(Len(seg) - 1) : seg[i] # "]"

InGrammar(seg) ==
    \/ \A i \in 1..Len(seg) : WordChar(seg[i])
    \/ \E lb, eq \in 1..Len(seg) : SelectorForm(seg, lb, eq)

Parsed == pc = "parsed"

\* C12: parsePath yields one step per segment between dots, in order; a
\* segment key[pk=pv] (key and pk runs of word characters, pv free of ']')
\* yields the step with that key and the selector (pk, pv); a segment that
\* is a run of word characters yields the step with that key and no
\* selector.
C12_OneStepPerSegment ==
    Parsed =>
        /\ Len(steps) = Cardinality(Dots) + 1
        /\ \A k \in 1..Len(steps) :
              /\ \A lb, eq \in 1..Len(Segment(k)) :
                    SelectorForm(Segment(k), lb, eq)
                    => /\ steps[k].key = SubSeq(Segment(k), 1, lb - 1)
                       /\ steps[k].selector.present
                       /\ steps[k].selector.key
                          = SubSeq(Segment(k), lb + 1, eq - 1)
                       /\ steps[k].selector.value
                          = SubSeq(Segment(k), eq + 1, Len(Segment(k)) - 1)
              /\ (\A i \in 1..Len(Segment(k)) : WordChar(Segment(k)[i]))
                 => /\ steps[k].key = Segment(k)
                    /\ ~steps[k].selector.present

\* C12 happens: a path of three segments, a selector segment between two
\* plain keys
C12_Witness ==
    /\ Parsed
    /\ Len(steps) = 3
    /\ ~steps[1].selector.present
    /\ steps[2].selector.present
    /\ Len(steps[2].key) = 2
    /\ Len(steps[2].selector.value) = 3
    /\ ~steps[3].selector.present
    /\ steps[3].key # << >>

\* C13: every segment outside the grammar `key` or `key[pk=pv]`, pv free of
\* ']', is parsed as a literal key equal to the whole segment with no
\* selector, so that no selector has a value containing ']'.
C13_MalformedIsLiteral ==
    Parsed =>
        \A k \in 1..Len(steps) :
            /\ ~InGrammar(Segment(k))
               => /\ steps[k].key = Segment(k)
                  /\ ~steps[k].selector.present
            /\ steps[k].selector.present
               => ~Contains(steps[k].selector.value, "]")

\* C13 for the segments that do not end in ']': an unclosed bracket, text
\* behind the bracket, a key that is no run of word characters
C13_NotClosedIsLiteral ==
    Parsed =>
        \A k \in 1..Len(steps) :
            (Segment(k) # << >> /\ Segment(k)[Len(Segment(k))] # "]")
            => /\ steps[k].key = Segment(k)
               /\ ~steps[k].selector.present

\* directUpdate has made its file update call
Committed ==
    /\ pc = "done"
    /\ calls # << >>
    /\ calls[Len(calls)].op = "repos.createOrUpdateFileContents"
CommitMessage == calls[Len(calls)].message

UpdateImage == << "u", "p", "d", "a", "t", "e", SP, "i", "m", "a", "g", "e" >>
UpdateHelm == << "u", "p", "d", "a", "t", "e", SP, "h", "e", "l", "m" >>
TargetRevision ==
    << "t", "a", "r", "g", "e", "t", "R", "e", "v", "i", "s", "i", "o",
       "n" >>
MessageImageDeepfx ==
    << "c", "i", "(", "d", "e", "e", "p", "f", "x", ")", ":", SP, "u",
       "p", "d", "a", "t", "e", SP, "i", "m", "a", "g", "e", SP, "d",
       "e", "e", "p", "f", "x", SP, "t", "o", SP, "m", "a", "i", "n",
       "-", "a", "6", "d", "6", "1", "9", "3" >>
MessageHelmDeepfx ==
    << "c", "i", "(", "d", "e", "e", "p", "f", "x", ")", ":", SP, "u",
       "p", "d", "a", "t", "e", SP, "h", "e", "l", "m", SP, "t", "o",
       SP, "m", "a", "i", "n", "-", "a", "6", "d", "6", "1", "9", "3" >>

\* C14: image-update commit message.  With a nested YAML path configured,
\* the message of directUpdate's file update is
\* ci(<scope>): update image <imageName> to <imageTag>; for path
\* apps[name=deepfx].source.helm.values and image
\* restack/deepfx:main-a6d6193 it is
\* ci(deepfx): update image deepfx to main-a6d6193.
C14_ImageUpdateMessage ==
    (Committed /\ nestedPath # << >> /\ info.scope # << >>)
    => /\ CommitMessage
          = << "c", "i", "(" >> \o info.scope \o << ")", ":", SP >>
            \o UpdateImage \o << SP >> \o info.imageName
            \o << SP, "t", "o", SP >> \o info.imageTag
       /\ (path = PathHelmValues /\ newValue = ImageDeepfx)
          => CommitMessage = MessageImageDeepfx

\* the last segment of the configured path
TerminalSegment == last(split(path, "."))

\* C15: helm-revision commit message.  When the terminal segment of
\* yamlPath is targetRevision and no nested path is given, the message is
\* ci(<scope>): update helm to <imageTag>; for path
\* apps[name=deepfx].source.targetRevision and value main-a6d6193 it is
\* ci(deepfx): update helm to main-a6d6193.
C15_HelmRevisionMessage ==
    (/\ Committed
     /\ nestedPath = << >>
     /\ TerminalSegment = TargetRevision
     /\ info.scope # << >>)
    => /\ CommitMessage
          = << "c", "i", "(" >> \o info.scope \o << ")", ":", SP >>
            \o UpdateHelm \o << SP, "t", "o", SP >> \o info.imageTag
       /\ newValue = ImageBareTag => CommitMessage = MessageHelmDeepfx

\* the places where [name=X] occurs in the path: position of the '[' and
\* of the ']', with X not empty and free of ']'
NameAt(open, close) ==
    /\ open + Len(NameOpen) < close
    /\ close <= Len(path)
    /\ SubSeq(path, open, open + Len(NameOpen) - 1) = NameOpen
    /\ path[close] = "]"
    /\ \A i \in (open + Len(NameOpen))..(close - 1) : path[i] # "]"
HasName == \E open, close \in 1..Len(path) : NameAt(open, close)
FirstName ==
    LET first == CHOOSE oc \in (1..Len(path)) \X (1..Len(path)) :
                    /\ NameAt(oc[1], oc[2])
                    /\ \A open, close \in 1..Len(path) :
                          NameAt(open, close) => oc[1] <= open
    IN SubSeq(path, first[1] + Len(NameOpen), first[2] - 1)

\* the last position of ch in s, 0 when there is none
LastOf(s, ch) ==
    IF \E i \in 1..Len(s) : s[i] = ch
    THEN CHOOSE i \in 1..Len(s) :
            s[i] = ch /\ \A j \in (i + 1)..Len(s) : s[j] # ch
    ELSE 0

\* the base name of the manifest path, and the same without its extension
BaseName == SubSeq(manifestPath, LastOf(manifestPath, "/") + 1,
                   Len(manifestPath))
BaseNameNoExtension ==
    IF LastOf(BaseName, ".") = 0 THEN BaseName
    ELSE SubSeq(BaseName, 1, LastOf(BaseName, ".") - 1)

\* C16: scope fallback chain.  The scope is the X of the first [name=X] in
\* yamlPath; with none, the configured containerName; with that empty too,
\* the base name of manifestPath with its extension stripped, whatever the
\* extension.
C16_ScopeFallbackChain ==
    Committed =>
        info.scope = IF HasName THEN FirstName
                     ELSE IF containerName # << >> THEN containerName
                     ELSE BaseNameNoExtension

\* C16 up to the manifest path: the first [name=X] of the path, else the
\* container name; and for a base name whose only dot starts a closing
\* .yaml, the base name without it
C16_ScopeFromPathOrContainer ==
    Committed =>
        IF HasName THEN info.scope = FirstName
        ELSE IF containerName # << >> THEN info.scope = containerName
        ELSE (BaseName = BaseNameNoExtension \o DotYaml
              /\ ~Contains(BaseNameNoExtension, "."))
             => info.scope = BaseNameNoExtension

\* what follows the last ':' of the new value; the whole value when it has
\* no ':'
AfterLastColon ==
    SubSeq(newValue, LastOf(newValue, ":") + 1, Len(newValue))
\* what stands in front of the last ':' of the new value
BeforeLastColon == SubSeq(newValue, 1, LastOf(newValue, ":") - 1)

\* C17 as claimed: imageTag is the substring after the last ':' of the
\* value, the whole value when it contains no ':'.
C17_TagAfterLastColon == Committed => info.imageTag = AfterLastColon

\* C17 amended: imageTag is the substring after the last ':' of the value,
\* the whole value when it contains no ':'; when that is the empty string
\* (the value is empty or ends in ':') imageTag is the literal latest.
C17_TagAfterLastColonOrLatest ==
    Committed =>
        info.imageTag = IF AfterLastColon = << >> THEN Latest
                        ELSE AfterLastColon

\* C17 happens: a value with two colons, and a value that ends in ':'
C17_Witness ==
    /\ Committed
    /\ Cardinality({ i \in 1..Len(newValue) : newValue[i] = ":" }) = 2
    /\ \/ info.imageTag = Latest
       \/ Len(info.imageTag) = 1 /\ Len(newValue) = 4

\* C18: imageName is the component after the last '/' of the part of the
\* value in front of its last ':'; when that component is empty (no ':' in
\* the value, or the part ends in '/') imageName is the placeholder unknown.
C18_NameBeforeLastColon ==
    Committed =>
        LET component ==
                SubSeq(BeforeLastColon, LastOf(BeforeLastColon, "/") + 1,
                       Len(BeforeLastColon))
        IN info.imageName = IF component = << >> THEN Unknown ELSE component

\* C18 happens: the name is taken from behind a '/' in front of the last
\* ':' while another '/' follows that ':'
C18_Witness ==
    /\ Committed
    /\ info.imageName = << "a" >>
    /\ LastOf(BeforeLastColon, "/") > 0
    /\ LastOf(newValue, "/") > LastOf(newValue, ":")

\* the calls that write to GitHub: a file update, a branch creation, a pull
\* request
WriteOps == { "repos.createOrUpdateFileContents", "git.createRef",
              "pulls.create" }
\* what run has asked of GitHub besides reading the file
AfterFetch == { i \in 1..Len(calls) : calls[i].op # "repos.getContent" }

\* C19: no write after a failed mutation.  When the mutation (updateYamlPath,
\* or updateLegacy with no yamlPath) returned false, run makes no file
\* update, branch creation or pull request call; a file update call is only
\* ever made after a mutation that returned true.
C19_NoWriteAfterFailedMutation ==
    /\ (pc \in { "updated", "done", "failed", "handleError" }
        /\ updated = "false")
       => AfterFetch = { }
    /\ (\E i \in 1..Len(calls) : calls[i].op \in WriteOps)
       => updated = "true"

\* C19 happens: run ended after a mutation that returned false with a
\* diagnostic, through updateYamlPath
C19_Witness ==
    /\ pc = "done"
    /\ updated = "false"
    /\ path # << >>
    /\ "L63_no_changes" \in { log[i] : i \in 1..Len(log) }
    /\ Len(calls) = 1

\* and through updateLegacy, with a container that is not in the manifest
C19_LegacyFalse ==
    /\ pc = "done"
    /\ updated = "false"
    /\ path = << >>
    /\ log = << "L92_container_not_found", "L63_no_changes" >>

\* Where a path leads when it is walked from the directory at: every name
\* goes one directory down, '..' one up (the root is its own parent), '.'
\* and empty segments nowhere.  The place is the list of names from the
\* file system's root.
RECURSIVE Walk(_, _)
Walk(at, segs) ==
    IF segs = << >> THEN at
    ELSE LET seg == Head(segs)
             to == IF seg = << >> \/ seg = << "." >> THEN at
                   ELSE IF seg = DotDot
                   THEN SubSeq(at, 1, IF at = << >> THEN 0 ELSE Len(at) - 1)
                   ELSE Append(at, seg)
         IN Walk(to, Tail(segs))

\* the characters of s between its leading and its trailing white space
Stripped(s) ==
    LET inked == { i \in 1..Len(s) : s[i] \notin { SP, NL } }
    IN IF inked = { } THEN << >>
       ELSE SubSeq(s, CHOOSE i \in inked : \A j \in inked : i <= j,
                   CHOOSE i \in inked : \A j \in inked : j <= i)

\* the repository root, and where the action path leads: from the file
\* system's root when it starts with '/', from the repository root else
RootPlace == Walk(<< >>, split(repoRoot, "/"))
ActionPlace ==
    IF Stripped(actionPath)[1] = "/"
    THEN Walk(<< >>, split(Stripped(actionPath), "/"))
    ELSE Walk(RootPlace, split(Stripped(actionPath), "/"))

\* strictly inside the repository root
Inside ==
    /\ Len(ActionPlace) > Len(RootPlace)
    /\ SubSeq(ActionPlace, 1, Len(RootPlace)) = RootPlace

Resolved == pc = "resolved"

\* C20: resolveRepoFilePath returns null for an empty or whitespace-only
\* path and for every path that leads to repoRoot itself or outside it;
\* every result that is not null has resolvedPath strictly inside repoRoot
\* and relativePath the path from repoRoot to it.
C20_ResolvedInsideRepo ==
    Resolved =>
        /\ Stripped(actionPath) = << >> => resolved.null
        /\ (Stripped(actionPath) # << >> /\ ~Inside) => resolved.null
        /\ ~resolved.null
           => /\ Inside
              /\ resolved.resolvedPath
                 = << "/" >> \o Join(ActionPlace, << "/" >>)
              /\ resolved.relativePath
                 = Join(SubSeq(ActionPlace, Len(RootPlace) + 1,
                               Len(ActionPlace)), << "/" >>)

\* C20 happens: a path that goes up and comes back into the repository is
\* resolved, below a root that is not the file system's
C20_Witness ==
    /\ Resolved
    /\ ~resolved.null
    /\ RootPlace # << >>
    /\ \E i \in 1..Len(split(actionPath, "/")) :
          split(actionPath, "/")[i] = DotDot

\* and a path that escapes the repository is refused
C20_EscapeRefused ==
    /\ Resolved
    /\ resolved.null
    /\ Stripped(actionPath) # << >>
    /\ ActionPlace # RootPlace
    /\ ~Inside
    /\ RootPlace # << >>
    /\ actionPath[1] # "/"

\* run has just made the legacy update
LegacyCalled == pc = "updated" /\ path = << >>

\* the node the keys lead to through mappings, as the specification reads
\* spec.template.spec.containers
RECURSIVE Below(_, _)
Below(node, keys) ==
    IF keys = << >> THEN node
    ELSE IF node.t # "map" THEN Undef
    ELSE Below(get(node, Head(keys)), Tail(keys))

Containers == Below(before.contents, ContainersPath)
ContainersAfter == Below(doc.contents, ContainersPath)

\* the container the legacy update is to write to, 0 when there is none
LegacyTarget ==
    IF Containers.t # "seq" THEN 0
    ELSE IF containerName # << >>
    THEN firstMatch(Containers.items,
                    [key |-> KeyName, value |-> containerName])
    ELSE IF Len(Containers.items) > 0 /\ Containers.items[1].t = "map"
    THEN 1
    ELSE 0

\* C25: legacy update.  updateLegacy sets image on the first element of
\* spec.template.spec.containers that is a mapping named containerName when
\* a containerName is given, on the first container when none is; it
\* changes that one container only (its image entry and nothing else),
\* returns true exactly when it set an image, and returns false with no
\* write when the sequence is missing, empty or has no such mapping.
C25_LegacyUpdate ==
    LegacyCalled =>
        IF LegacyTarget = 0
        THEN updated = "false" /\ doc = before
        ELSE /\ updated = "true"
             /\ ContainersAfter.t = "seq"
             /\ withIn(doc.contents, ContainersPath,
                       [ContainersAfter EXCEPT !.items[LegacyTarget] = Hole])
                = withIn(before.contents, ContainersPath,
                         [Containers EXCEPT !.items[LegacyTarget] = Hole])
             /\ LET was == Containers.items[LegacyTarget]
                    is == ContainersAfter.items[LegacyTarget]
                IN /\ is.t = "map"
                   /\ get(is, KeyImage).t = "str"
                   /\ get(is, KeyImage).v = newValue
                   /\ \A i \in 1..Len(was.items) :
                         was.items[i].key.v # KeyImage
                         => is.items[i] = was.items[i]
                   /\ Len(is.items)
                      = IF get(was, KeyImage) = Undef
                        THEN Len(was.items) + 1 ELSE Len(was.items)

\* C25 happens: the second of three containers is updated, a later one of
\* the same name is not
C25_Witness ==
    /\ LegacyCalled
    /\ LegacyTarget = 2
    /\ Len(Containers.items) = 3
    /\ Matches(Containers.items[3], [key |-> KeyName, value |-> containerName])
    /\ updated = "true"

\* what run asked of GitHub after it read the manifest, in order
Written == SubSeq(calls, 2, Len(calls))
WrittenOps == [i \in 1..Len(Written) |-> Written[i].op]
PullRequestOps ==
    << "git.getRef", "git.createRef", "repos.createOrUpdateFileContents",
       "pulls.create" >>

\* the calls of a run at any moment: with createPr a prefix of read the
\* base ref, create the new branch, update the file on the new branch, open
\* the pull request, the file update never on config.branch; without
\* createPr one file update on config.branch and nothing else
C27_CallsInOrder ==
    /\ createPr
       => /\ Len(Written) <= Len(PullRequestOps)
          /\ WrittenOps = SubSeq(PullRequestOps, 1, Len(Written))
          /\ Len(Written) >= 1 => Written[1].branch = Branch
          /\ \A i \in 2..Len(Written) :
                Written[i].branch = branchName(info)
                /\ Written[i].branch # Branch
          /\ (pc = "done" /\ updated = "true") => WrittenOps = PullRequestOps
    /\ ~createPr
       => /\ Len(Written) <= 1
          /\ Len(Written) = 1
             => /\ Written[1].op = "repos.createOrUpdateFileContents"
                /\ Written[1].branch = Branch
          /\ (pc = "done" /\ updated = "true") => Len(Written) = 1

\* a call of the pull-request flow is made only from the position the call
\* before it leads to when it goes through, and none after a call was
\* rejected
C27_EachAfterTheOneBefore ==
    [][calls' # calls =>
         LET op == calls'[Len(calls')].op
         IN /\ pc \notin { "handleError", "failed", "done" }
            /\ op = "git.createRef" => pc = "createRef"
            /\ op = "pulls.create" => pc = "createPr"
            /\ (op = "repos.createOrUpdateFileContents" /\ createPr)
               => pc = "updateFile"]_vars

\* C27: pull-request flow.  With createPr the calls are, in this order, read
\* the base ref, create the new branch, update the file on the new branch,
\* open the pull request, each made only when the one before went through;
\* the file update never targets config.branch.  Without createPr exactly
\* one file update is made, on config.branch, and no branch or pull request
\* is created.
C27_PullRequestFlow == []C27_CallsInOrder /\ C27_EachAfterTheOneBefore

\* C27 happens: the whole pull-request flow went through
C27_Witness ==
    /\ createPr
    /\ pc = "done"
    /\ WrittenOps = PullRequestOps
    /\ info.scope # << >>

\* and the direct update
C27_DirectWitness ==
    /\ ~createPr
    /\ pc = "done"
    /\ Len(Written) = 1

(***************************************************************************)
(* C30                                                                      *)
(***************************************************************************)
\* the steps a call has to spend: those of the path and, when a nested path
\* is given, those of the nested path
StepsGiven ==
    Len(parts) + (IF nestedPath # << >> THEN Len(nestedParts) ELSE 0)

\* C30: termination and bounded descent.  Every updateYamlPath call returns
\* (with true, false or an exception); it makes at least one traverseAndSet
\* call and at most one per step of the path plus one per step of the
\* nested path, and parses at most one embedded document, none when no
\* nested path is given.
C30_BoundedDescent ==
    Called =>
        /\ updated \in { "true", "false", "throw" }
        /\ descent.n >= 1
        /\ descent.n <= StepsGiven
        /\ descent.docs <= 1
        /\ nestedPath = << >> => descent.docs = 0 /\ descent.n <= Len(parts)

\* C30 happens: a call went down a path of two steps, parsed the embedded
\* document and went down a nested path of two steps in it, one call a step
C30_Witness ==
    /\ Called
    /\ Len(parts) = 2
    /\ Len(nestedParts) = 2
    /\ descent.docs = 1
    /\ descent.n = 4

(***************************************************************************)
(* C23                                                                      *)
(***************************************************************************)
\* some mapping of the tree holds the same key twice
RECURSIVE HasDuplicateKey(_)
HasDuplicateKey(node) ==
    CASE isMap(node) ->
           \/ \E i, j \in 1..Len(node.items) :
                 i < j /\ node.items[i].key.v = node.items[j].key.v
           \/ \E i \in 1..Len(node.items) :
                 HasDuplicateKey(node.items[i].value)
      [] isSeq(node) ->
           \E i \in 1..Len(node.items) : HasDuplicateKey(node.items[i])
      [] OTHER -> FALSE

RECURSIVE HasSequence(_)
HasSequence(node) ==
    CASE isMap(node) ->
           \E i \in 1..Len(node.items) : HasSequence(node.items[i].value)
      [] isSeq(node) -> TRUE
      [] OTHER -> FALSE

Validated == pc = "validated"

\* C23: validateYAMLNoDuplicateKeys returns an error message if and only if
\* some mapping of the YAML content contains the same key twice, and null
\* for every valid content without duplicate keys, sequences of mappings
\* whose elements repeat the same key names included.
C23_ErrorIffDuplicate ==
    Validated => (~validationError.null <=> HasDuplicateKey(doc.contents))

\* what holds of C23: for content without sequences an error is returned
\* exactly when some mapping holds the same key twice
C23_ErrorIffDuplicateWithoutSequences ==
    Validated /\ ~HasSequence(doc.contents) =>
        (~validationError.null <=> HasDuplicateKey(doc.contents))

\* a sequence of mappings that repeat key names, no key twice in any
\* mapping, is refused
C23_RefusedWithoutDuplicate ==
    /\ Validated
    /\ ~HasDuplicateKey(doc.contents)
    /\ ~validationError.null

\* a mapping inside a sequence holds a key twice and the content passes
C23_PassedWithDuplicate ==
    /\ Validated
    /\ HasDuplicateKey(doc.contents)
    /\ validationError.null

(***************************************************************************)
(* restack-code: what the claims speak of                                   *)
(***************************************************************************)
Responded == pc # "run" /\ pc # "failed"

CallsOf(ops) == { i \in 1..Len(calls) : calls[i].op \in ops }

OutputsOf(name) == { i \in 1..Len(outputs) : outputs[i].name = name }

\* an absolute path at or below the repository root
InsideRoot(absolutePath) ==
    LET Under(rootSegs, segs) ==
            /\ Len(segs) >= Len(rootSegs)
            /\ \A k \in 1..Len(rootSegs) : segs[k] = rootSegs[k]
            /\ \A k \in 1..Len(segs) : segs[k] # DotDot
    IN Under(segmentsOf(GITHUB_WORKSPACE), segmentsOf(absolutePath))

(***************************************************************************)
(* C21                                                                      *)
(***************************************************************************)
\* C21: PR review comments go to the existing PR branch.  When the event is
\* pull_request_review_comment, pr_head_ref is set and commit is enabled,
\* every push the run makes is to pr_head_ref and no pull request is
\* created, for JSON file-action responses and for unified-diff responses
\* alike.
C21_ReviewCommentsGoToPRBranch ==
    usesPRBranch /\ inputs.commit =>
        /\ \A i \in CallsOf({ "git.push" }) :
              calls[i].branch = inputs.pr_head_ref
        /\ CallsOf({ "pulls.create" }) = { }

\* what holds of C21: the same for JSON file-action responses
C21_ActionsGoToPRBranch ==
    usesPRBranch /\ inputs.commit /\ Responded
    /\ branchOf(llmResponse) = "actions" =>
        /\ \A i \in CallsOf({ "git.push" }) :
              calls[i].branch = inputs.pr_head_ref
        /\ CallsOf({ "pulls.create" }) = { }

\* a JSON response to a review comment was committed and pushed
C21_ActionsPushed ==
    /\ usesPRBranch
    /\ branchOf(llmResponse) = "actions"
    /\ pc = "done"
    /\ CallsOf({ "git.push" }) # { }

(***************************************************************************)
(* C22                                                                      *)
(***************************************************************************)
\* C22: commit=false applies nothing.  When the commit input is not 'true',
\* run checks out or creates no branch, writes, stages or deletes no file,
\* makes no commit, push or pull request, whatever the LLM response is; it
\* sets the llm_response and summary outputs only and posts at most one
\* comment, and that only when post_comment asks for it.
C22_CommitFalseAppliesNothing ==
    ~inputs.commit =>
        /\ worktree = [current |-> Branch, written |-> { }, staged |-> { }]
        /\ \A i \in 1..Len(calls) : calls[i].op = "issues.createComment"
        /\ Len(calls) <= 1
        /\ calls # << >> => inputs.post_comment
        /\ \A i \in 1..Len(outputs) :
              outputs[i].name \in { "llm_response", "summary" }
        /\ pc = "done" => /\ Cardinality(OutputsOf("llm_response")) = 1
                          /\ Cardinality(OutputsOf("summary")) = 1

\* C22 happens: a run without commit got a JSON response with file actions,
\* posted its comment and ended
C22_Witness ==
    /\ ~inputs.commit
    /\ pc = "done"
    /\ branchOf(llmResponse) = "actions"
    /\ calls # << >>

(***************************************************************************)
(* C24                                                                      *)
(***************************************************************************)
\* the texts of a JSON response are settled
TextsSettled ==
    /\ inputs.commit
    /\ Responded
    /\ branchOf(llmResponse) = "actions"
    /\ pc # "actions"

\* the workflow's value when given, else the LLM's when given, else the
\* default
Precedence(workflow, llm, default) ==
    IF workflow # << >> THEN workflow
    ELSE IF llm # << >> THEN llm
    ELSE default

\* C24: commit/PR text precedence for a JSON file-actions response.  The
\* workflow-provided commit_message, pr_title and pr_body come first, the
\* LLM-provided ones are used when the workflow input is not provided, the
\* built-in defaults only when neither provides a value.
C24_TextPrecedence ==
    TextsSettled =>
        /\ locals.finalCommitMessage =
              Precedence(inputs.commit_message,
                         llmResponse.actionResponse.commit_message,
                         DefaultCommitMessage)
        /\ locals.finalPrTitle =
              Precedence(inputs.pr_title, llmResponse.actionResponse.pr_title,
                         DefaultPrTitle)
        /\ locals.finalPrBody =
              Precedence(inputs.pr_body, llmResponse.actionResponse.pr_body,
                         DefaultPrBody)

\* what holds of C24: the workflow's value when given, else the default;
\* the LLM's texts are never used
C24_WorkflowOrDefault ==
    TextsSettled =>
        /\ locals.finalCommitMessage =
              Precedence(inputs.commit_message, << >>, DefaultCommitMessage)
        /\ locals.finalPrTitle =
              Precedence(inputs.pr_title, << >>, DefaultPrTitle)
        /\ locals.finalPrBody =
              Precedence(inputs.pr_body, << >>, DefaultPrBody)

\* the LLM gave texts and the workflow gave none
C24_LlmTextsOnly ==
    /\ TextsSettled
    /\ inputs.commit_message = << >>
    /\ llmResponse.actionResponse.commit_message # << >>

(***************************************************************************)
(* C26                                                                      *)
(***************************************************************************)
\* C26: LLM-driven writes stay inside the repository.  Every file run
\* writes, stages or deletes in response to an LLM response, through JSON
\* file actions or new-file blocks of a unified diff, lies inside the
\* repository root; a path that escapes the root is skipped.
C26_WritesStayInside ==
    \A written \in worktree.written : InsideRoot(written)

\* what holds of C26: the same for JSON file actions
C26_FileActionsStayInside ==
    Responded /\ branchOf(llmResponse) = "actions" =>
        \A written \in worktree.written : InsideRoot(written)

\* file actions with an escaping and an absolute path were executed, and the
\* files inside were written
C26_FileActionsExecuted ==
    /\ branchOf(llmResponse) = "actions"
    /\ \E i \in 1..Len(llmResponse.actionResponse.actions) :
          llmResponse.actionResponse.actions[i].path = PathEscaping
    /\ join(GITHUB_WORKSPACE, PathInside) \in worktree.written

(***************************************************************************)
(* C28                                                                      *)
(***************************************************************************)
\* what the staged-changes check returned, false before it was made
CheckedStaged ==
    IF branchOf(llmResponse) = "actions" THEN locals.hasChanges
    ELSE locals.stagedAfterPatch

\* C28: no empty commits.  git commit and git push are invoked only after
\* the staged-changes check returned true, in the JSON file-actions path
\* and in the unified-diff path; when nothing is staged no commit, push or
\* pull request is made and no commit_sha output is set.
C28_NoEmptyCommits ==
    ~CheckedStaged =>
        /\ CallsOf({ "git.commit", "git.push", "pulls.create" }) = { }
        /\ OutputsOf("commit_sha") = { }

\* C28 happens: file actions were executed and nothing was staged, and the
\* run ended
C28_Witness ==
    /\ inputs.commit
    /\ branchOf(llmResponse) = "actions"
    /\ locals.changesCount > 0
    /\ ~locals.hasChanges
    /\ pc = "done"

\* a patch was applied, the check returned true, the commit was pushed
C28_PatchCommitted ==
    /\ branchOf(llmResponse) = "patch"
    /\ locals.stagedAfterPatch
    /\ pc = "done"
    /\ OutputsOf("commit_sha") # { }

(***************************************************************************)
(* C29                                                                      *)
(***************************************************************************)
\* the lookups made after a push
LookupsAfterPush ==
    { i \in CallsOf({ "pulls.list" }) :
        \E j \in CallsOf({ "git.push" }) : j < i }

\* C29: no duplicate pull request.  pulls.create is called at most once per
\* run, only with create_pr, after a push that went through and right after
\* a lookup that found no open PR for the branch; when that lookup found
\* one, no pull request is created and pr_url is the existing PR's URL.
C29_NoDuplicatePullRequest ==
    /\ Cardinality(CallsOf({ "pulls.create" })) <= 1
    /\ \A i \in CallsOf({ "pulls.create" }) :
          /\ inputs.create_pr
          /\ OutputsOf("commit_sha") # { }
          /\ i > 1
          /\ calls[i - 1] = Call("pulls.list", << >>, calls[i].branch)
          /\ \E j \in CallsOf({ "git.push" }) :
                j < i /\ calls[j].branch = calls[i].branch
    /\ \A i \in LookupsAfterPush :
          calls[i].message = ExistingPrUrl =>
              /\ CallsOf({ "pulls.create" }) = { }
              /\ \E o \in OutputsOf("pr_url") :
                    outputs[o].value = ExistingPrUrl

\* C29 happens: after the push the lookup found an open PR and the run ended
C29_Witness ==
    /\ pc = "done"
    /\ \E i \in LookupsAfterPush : calls[i].message = ExistingPrUrl

\* a pull request was created
C29_Created ==
    /\ pc = "done"
    /\ CallsOf({ "pulls.create" }) # { }
    /\ \E o \in OutputsOf("pr_url") : outputs[o].value = CreatedPrUrl

====
